---- MODULE Spec2Model ----
(***************************************************************************)
(* Message batching and trigger engine of the Feishu channel plugin.       *)
(*                                                                         *)
(*   BatchProcessor   core/batch-processor.ts (per-chat buffer and timers) *)
(*   chat queues      core/gateway.ts (enqueueMessage / processQueue)      *)
(*   dedup ledger     core/gateway.ts (isDuplicateEvent, watermarks)       *)
(*                                                                         *)
(* Time.  The code reads Date.now() and arms setTimeout timers.  The model *)
(* does not store the wall clock: a timestamp field f is represented by    *)
(* its age Date.now() - f, and a timer by the time left until it fires.    *)
(* Tick advances every age and every timer by TickMs.  Ages saturate      *)
(* above every threshold the code compares them with.                      *)
(* A timer whose time left is 0 is due: it fires before time advances      *)
(* (the event loop is idle between callbacks), due timers and arriving     *)
(* messages interleave in any order.  setTimeout returns a new handle:     *)
(* a pending timer whose handle is overwritten without clearTimeout keeps  *)
(* running (the stray timers of a state object).                           *)
(***************************************************************************)
EXTENDS Integers, Sequences, FiniteSets, TLC

\* ------------------------------------------------------------------------
\* Program constants (core/batch-processor.ts)
\* ------------------------------------------------------------------------
STARTUP_WINDOW_MS == 10000
REALTIME_DEBOUNCE_MS == 2000
MAX_BATCH_WAIT_MS == 10000
AUTO_REPLY_MIN_MESSAGES == 5
AUTO_REPLY_MIN_TIME_MS == 60000
AUTO_REPLY_DEBOUNCE_MS == 3000

\* Program constants (core/gateway.ts)
RECONNECT_BASE_MS == 1000
RECONNECT_MAX_MS == 60000
RECONNECT_MAX_ATTEMPTS == 20
DEDUP_WINDOW_MS == 24 * 60 * 60 * 1000
DEDUP_CLEANUP_MS == 60 * 60 * 1000
MAX_MESSAGE_AGE_MS == 5 * 60 * 1000

\* ------------------------------------------------------------------------
\* Bounds of the model
\* ------------------------------------------------------------------------
\* messages the transport delivers in a run with one chat
MaxMsgs == 5
\* messages the transport delivers in a run with two chats
MaxMsgsTwoChats == 2
\* messages the transport delivers in a run with one chat and no auto-reply
MaxMsgsChatter == 6

\* tasks handed to enqueueMessage in one run
MaxTasks == 4

\* transport events delivered in one run of the handler
MaxEvents == 2
\* transport events delivered in one run of the ledger
MaxLedgerEvents == 3
\* messages the transport delivers in a run with a short auto-reply window
MaxMsgsQuick == 3
\* register calls made on one trigger registry
MaxRegistrations == 3

Chats == {"oc_a", "oc_b"}

Max(a, b) == IF a >= b THEN a ELSE b
Min(a, b) == IF a <= b THEN a ELSE b

RECURSIVE Gcd(_, _)
Gcd(a, b) == IF b = 0 THEN a ELSE Gcd(b, a % b)

\* the largest step that divides every timer duration
TickMs == Gcd(REALTIME_DEBOUNCE_MS, AUTO_REPLY_DEBOUNCE_MS)


NoTimer == -1
NoTime == -1
NoMsg == [messageId |-> 0, chatId |-> "", mentionedBot |-> FALSE]

\* autoReply option of the plugin config (config/schema.ts, AutoReplyConfigSchema);
\* a missing field is written 0 and falls back to the default (the ?? operator)
AutoReplyOff == [enabled |-> FALSE, minMessages |-> 0, minTimeMs |-> 0, debounceMs |-> 0]
AutoReplyDefault == [enabled |-> TRUE, minMessages |-> 0, minTimeMs |-> 0, debounceMs |-> 0]

\* an autoReply option with small thresholds: two messages, five seconds
AutoReplyQuick == [enabled |-> TRUE, minMessages |-> 2, minTimeMs |-> 5000, debounceMs |-> 0]

\* the runs explored: the chats the transport delivers from, the config, and
\* how the processor is driven.  Driven directly (as the unit tests do) its
\* public methods processMessage, flush and dispose are called in any order;
\* otherwise it gets processMessage calls and then at most a final dispose(),
\* the calls the handler and stopGateway / onAbort make.  The onFlush callback
\* given in the options either always resolves or may reject any call.  The
\* age of the oldest buffered message, which the code does not keep, is
\* recorded only in the runs whose properties read it.
Scenarios ==
    { [chats |-> Chats, autoReply |-> AutoReplyOff, msgs |-> MaxMsgsTwoChats, direct |-> TRUE, arrivals |-> FALSE,
        awaited |-> FALSE, rejects |-> FALSE],
      [chats |-> {"oc_a"}, autoReply |-> AutoReplyOff, msgs |-> MaxMsgsChatter, direct |-> FALSE, arrivals |-> FALSE,
        awaited |-> FALSE, rejects |-> TRUE],
      [chats |-> {"oc_a"}, autoReply |-> AutoReplyDefault, msgs |-> MaxMsgs, direct |-> FALSE, arrivals |-> FALSE,
        awaited |-> FALSE, rejects |-> TRUE] }

VARIABLES
    conversations,    \* chat ids the transport delivers messages from
    budget,           \* number of messages the transport delivers
    direct,           \* the public methods are called directly, in any order
    arrivals,         \* history switch: the age of the oldest buffered message is recorded
    awaited,          \* the onFlush calls are followed until they settle
    dispatching,      \* per chat, the onFlush calls made and not settled yet (when followed)
    onFlushRejects,   \* options.onFlush may reject
    autoReplyConfig,  \* BatchProcessor.autoReplyConfig
    sinceConnected,   \* Date.now() - BatchProcessor.connectedAt (saturating)
    chatStates,       \* BatchProcessor.chatStates: chat id -> ChatBatchState
    detached,         \* ChatBatchState objects dropped from the map whose timers are still pending
    nextMsgId,        \* id of the next message delivered
    flushed,          \* history: number of onFlush calls per chat
    accounted,        \* history: per chat, the newest message handed to onFlush or dropped
                      \* by dispose() with its buffer
    rejectedUpTo,     \* history: per chat, the newest message of a payload onFlush rejected
    lastFlush,        \* the onFlush call made by the step just taken (NoFlush: none)
    everTriggered,    \* history: chats one of whose messages matched a trigger
    disposedIdle,     \* history: dispose() was called and no message arrived since
    cancelled,        \* history: longest time left of a timer dispose() last cleared
    sinceDisposed     \* history: age of the last dispose() call (saturating), NoTime if none

batchVars == <<conversations, budget, direct, arrivals, awaited, onFlushRejects, autoReplyConfig, sinceConnected, chatStates, detached,
               nextMsgId, flushed, accounted, dispatching, rejectedUpTo, lastFlush, everTriggered, disposedIdle, cancelled,
               sinceDisposed>>

VARIABLES
    chatQueues,       \* gateway.ts chatQueues: chat id -> ChatQueue object (by identity)
    queueHeap,        \* the ChatQueue objects a map entry or a running worker refers to
    nextTask,         \* id of the next task handed to enqueueMessage
    taskChat,         \* history: chat id of every task, in enqueue order
    taskTime,         \* history: age of the create_time of every task's event, NoTime if none
    started,          \* history: ids of the tasks whose handler was invoked, in start order
    failedTasks       \* history: ids of the tasks whose handler threw or rejected

queueVars == <<chatQueues, queueHeap, nextTask, taskChat, taskTime, started, failedTasks>>

VARIABLES
    processedEvents,   \* gateway.ts processedEvents: event id -> age of its first-seen time
    chatWatermarks,    \* gateway.ts chatWatermarks: chat id -> age of the stored create_time
    dedupCleanupTimer, \* time left until the cleanup interval fires, NoTimer when not set
    nextEvent,         \* number of the next transport event
    lastEvent,         \* the message event handled by the step just taken (NoEvent: none)
    expired,           \* history: event ids the cleanup sweep has deleted
    awaiting,          \* calls of the message handler that have not returned yet: the
                       \* tasks they wait for
    handling           \* per started task whose handleMessage call is followed: the
                       \* batch processor its closure read and where the call stands

gatewayVars == <<processedEvents, chatWatermarks, dedupCleanupTimer, nextEvent, lastEvent,
                 expired, awaiting, handling>>

VARIABLES
    pc,                \* where the startGateway call stands (idle: not called, or abstracted)
    shouldStop,        \* state.shouldStop
    reconnectAttempts, \* state.reconnectAttempts
    isReconnecting,    \* state.isReconnecting
    batchProcessor,    \* state.batchProcessor: "live", or null: "none" (never set), "disposed"
    aborted,           \* options.abortSignal.aborted
    listening,         \* the abort listener is registered
    linkUp,            \* the WebSocket connection of state.wsClient is open
    delay,             \* the delay slept after the latest failure in a row, 0 when none
    prevDelay,         \* history: the delay slept after the failure before that one
    failuresInRow,     \* history: connection attempts that failed since the last success
    attemptsStarted    \* history: wsClient.start calls made

supervisorVars == <<pc, shouldStop, reconnectAttempts, isReconnecting, batchProcessor, aborted,
                    listening, linkUp, delay, prevDelay, failuresInRow, attemptsStarted>>

VARIABLES
    triggers,          \* trigger/registry.ts triggers: the array of registered triggers
    nextReg,           \* history: the number of the next register call
    lastCheck          \* output of this step: what check() evaluated and returned

registryVars == <<triggers, nextReg, lastCheck>>

otherVars == <<supervisorVars, registryVars>>

vars == <<batchVars, queueVars, gatewayVars, otherVars>>

\* ------------------------------------------------------------------------
\* BatchProcessor
\* ------------------------------------------------------------------------
NoFlush == [chatId |-> "", messages |-> <<>>, triggerMessage |-> NoMsg, isAutoReply |-> FALSE,
            via |-> "", mode |-> "", idleMs |-> 0, waitedMs |-> 0, elapsedMs |-> 0]

hasState(c) == c \in DOMAIN chatStates

\* the state objects a pending timer can still reach
LiveStates == {chatStates[c] : c \in DOMAIN chatStates} \cup detached

Pending(s) ==
    \/ s.debounceTimer # NoTimer
    \/ s.maxWaitTimer # NoTimer
    \/ s.autoReplyTimer # NoTimer
    \/ s.stray # {}

\* state.xTimer = setTimeout(callback, ms): the timer the field referred to
\* keeps running when it was not cleared before
Stray(kind, left) == IF left = NoTimer THEN {} ELSE {[kind |-> kind, left |-> left]}

setDebounceTimer(s, ms) ==
    [s EXCEPT !.debounceTimer = ms, !.stray = @ \cup Stray("debounce", s.debounceTimer)]

setMaxWaitTimer(s, ms) ==
    [s EXCEPT !.maxWaitTimer = ms, !.stray = @ \cup Stray("maxWait", s.maxWaitTimer)]

setAutoReplyTimer(s, ms) ==
    [s EXCEPT !.autoReplyTimer = ms, !.stray = @ \cup Stray("autoReply", s.autoReplyTimer)]

clearDebounceTimer(s) == [s EXCEPT !.debounceTimer = NoTimer]

clearMaxWaitTimer(s) == [s EXCEPT !.maxWaitTimer = NoTimer]

clearAutoReplyTimer(s) == [s EXCEPT !.autoReplyTimer = NoTimer]

\* faulty variant: the buffer survives the reset
resetState_KeepBuffer(s) ==
    [s EXCEPT !.hasTrigger = FALSE,
              !.triggerMessage = NoMsg,
              !.mode = "realtime",
              !.firstTriggerAge = NoTime,
              !.firstMessageAge = 0,
              !.firstBufferedAge = NoTime]

\* faulty variant: the trigger flag survives the reset
resetState_KeepFlag(s) ==
    [s EXCEPT !.buffer = <<>>,
              !.triggerMessage = NoMsg,
              !.mode = "realtime",
              !.firstTriggerAge = NoTime,
              !.firstMessageAge = 0,
              !.firstBufferedAge = NoTime]

resetState(s) ==
    [s EXCEPT !.buffer = <<>>,
              !.hasTrigger = FALSE,
              !.triggerMessage = NoMsg,
              !.mode = "realtime",
              !.firstTriggerAge = NoTime,
              !.firstMessageAge = 0,
              !.firstBufferedAge = NoTime]

scheduleMaxWaitFlush(s) ==
    setMaxWaitTimer(clearMaxWaitTimer(s), MAX_BATCH_WAIT_MS)

\* faulty variant: a startup batch is debounced like a realtime batch
scheduleStartupFlush_Debounce(s) ==
    IF s.debounceTimer # NoTimer
    THEN s
    ELSE setDebounceTimer(s, REALTIME_DEBOUNCE_MS)

scheduleStartupFlush(s) ==
    IF s.debounceTimer # NoTimer
    THEN s
    ELSE setDebounceTimer(s, Max(0, STARTUP_WINDOW_MS - sinceConnected))

minMessagesOf(cfg) == IF cfg.minMessages # 0 THEN cfg.minMessages ELSE AUTO_REPLY_MIN_MESSAGES
minTimeMsOf(cfg) == IF cfg.minTimeMs # 0 THEN cfg.minTimeMs ELSE AUTO_REPLY_MIN_TIME_MS
debounceMsOf(cfg) == IF cfg.debounceMs # 0 THEN cfg.debounceMs ELSE AUTO_REPLY_DEBOUNCE_MS

scheduleAutoReplyCheck(s) ==
    setAutoReplyTimer(s, debounceMsOf(autoReplyConfig))

\* faulty variant: a triggered batch is debounced for one second
scheduleRealtimeFlush_OneSecond(s) ==
    IF s.hasTrigger
    THEN setDebounceTimer(s, 1000)
    ELSE IF ~autoReplyConfig.enabled
         THEN s
         ELSE scheduleAutoReplyCheck(s)

\* faulty variant: the auto-reply check is scheduled for triggered batches too
scheduleRealtimeFlush_AutoToo(s) ==
    LET d == IF s.hasTrigger THEN setDebounceTimer(s, REALTIME_DEBOUNCE_MS) ELSE s
    IN  IF ~autoReplyConfig.enabled THEN d ELSE scheduleAutoReplyCheck(d)

scheduleRealtimeFlush(s) ==
    IF s.hasTrigger
    THEN setDebounceTimer(s, REALTIME_DEBOUNCE_MS)
    ELSE IF ~autoReplyConfig.enabled
         THEN s
         ELSE scheduleAutoReplyCheck(s)

scheduleTimeConditionCheck(s, delayMs) ==
    setAutoReplyTimer(clearAutoReplyTimer(s), delayMs)

\* a flush attempt yields the state left behind and the payload handed to
\* onFlush (NoFlush when onFlush is not called)
Payload(s, isAuto, cause) ==
    [chatId |-> s.chatId,
     messages |-> s.buffer,
     triggerMessage |-> IF isAuto THEN NoMsg ELSE s.triggerMessage,
     isAutoReply |-> isAuto,
     via |-> cause,
     mode |-> s.mode,
     idleMs |-> s.lastMessageAge,
     waitedMs |-> s.firstTriggerAge,
     elapsedMs |-> s.firstMessageAge,
     bufferedMs |-> s.firstBufferedAge,
     rejected |-> FALSE,
     logged |-> FALSE]

\* faulty variant: a rejected hand-off puts the batch back for a retry
handOff_Retry(s, r, ok) ==
    IF r.payload = NoFlush
    THEN r
    ELSE IF ok
         THEN r
         ELSE [state |-> [r.state EXCEPT !.buffer = s.buffer,
                                         !.hasTrigger = s.hasTrigger,
                                         !.triggerMessage = s.triggerMessage],
               payload |-> [r.payload EXCEPT !.rejected = TRUE, !.logged = TRUE]]

\* try { await this.options.onFlush(payload) } catch (err) { runtime.error(...) }
\* around a flush attempt r on state s: onFlush resolves (ok) or rejects, a
\* rejection is logged and has no other effect
handOff(s, r, ok) ==
    IF r.payload = NoFlush
    THEN r
    ELSE IF ok
         THEN r
         ELSE [r EXCEPT !.payload.rejected = TRUE, !.payload.logged = TRUE]

flushAutoReply(s, cause) ==
    LET c == clearAutoReplyTimer(clearMaxWaitTimer(clearDebounceTimer(s)))
    IN  IF Len(c.buffer) = 0
        THEN [state |-> c, payload |-> NoFlush]
        ELSE [state |-> resetState(c), payload |-> Payload(c, TRUE, cause)]

\* faulty variant: the trigger guard is missing, every flush attempt delivers
flushIfTriggered_NoGuard(s, cause) ==
    LET c == clearAutoReplyTimer(clearMaxWaitTimer(clearDebounceTimer(s)))
    IN  [state |-> resetState(c), payload |-> Payload(c, FALSE, cause)]

\* faulty variant: the max-wait timer is not cancelled by a flush
flushIfTriggered_KeepMaxWait(s, cause) ==
    LET c == clearAutoReplyTimer(clearDebounceTimer(s))
    IN  IF ~c.hasTrigger \/ c.triggerMessage = NoMsg
        THEN [state |-> [c EXCEPT !.mode = "realtime"], payload |-> NoFlush]
        ELSE [state |-> resetState(c), payload |-> Payload(c, FALSE, cause)]

\* faulty variant: a flush attempt without a trigger leaves the mode alone
flushIfTriggered_KeepMode(s, cause) ==
    LET c == clearAutoReplyTimer(clearMaxWaitTimer(clearDebounceTimer(s)))
    IN  IF ~c.hasTrigger \/ c.triggerMessage = NoMsg
        THEN [state |-> c, payload |-> NoFlush]
        ELSE [state |-> resetState(c), payload |-> Payload(c, FALSE, cause)]

flushIfTriggered(s, cause) ==
    LET c == clearAutoReplyTimer(clearMaxWaitTimer(clearDebounceTimer(s)))
    IN  IF ~c.hasTrigger \/ c.triggerMessage = NoMsg
        THEN [state |-> [c EXCEPT !.mode = "realtime"], payload |-> NoFlush]
        ELSE [state |-> resetState(c), payload |-> Payload(c, FALSE, cause)]

checkAutoReplyConditions(s) ==
    LET minMessages == minMessagesOf(autoReplyConfig)
        minTimeMs == minTimeMsOf(autoReplyConfig)
        messageCount == Len(s.buffer)
        timeElapsed == s.firstMessageAge
    IN  IF s.hasTrigger
        THEN [state |-> s, payload |-> NoFlush]
        ELSE IF messageCount >= minMessages /\ timeElapsed >= minTimeMs
             THEN flushAutoReply(s, "autoReply")
             ELSE IF messageCount >= minMessages /\ timeElapsed < minTimeMs
                  THEN [state |-> scheduleTimeConditionCheck(s, minTimeMs - timeElapsed),
                        payload |-> NoFlush]
                  ELSE [state |-> s, payload |-> NoFlush]

newChatState(c) ==
    [chatId |-> c,
     mode |-> IF sinceConnected < STARTUP_WINDOW_MS THEN "startup" ELSE "realtime",
     buffer |-> <<>>,
     hasTrigger |-> FALSE,
     triggerMessage |-> NoMsg,
     debounceTimer |-> NoTimer,
     maxWaitTimer |-> NoTimer,
     autoReplyTimer |-> NoTimer,
     stray |-> {},
     lastMessageAge |-> 0,
     firstTriggerAge |-> NoTime,
     firstMessageAge |-> 0,
     firstBufferedAge |-> NoTime]

\* mentionTrigger.check, the only trigger of the default trigger list
triggerCheck(msg) == msg.mentionedBot

\* faulty variant: the first trigger does not arm the max-wait timer
applyTrigger_NoMaxWait(s, msg) ==
    IF triggerCheck(msg) /\ ~s.hasTrigger
    THEN clearAutoReplyTimer(
            [s EXCEPT !.hasTrigger = TRUE, !.triggerMessage = msg, !.firstTriggerAge = 0])
    ELSE IF triggerCheck(msg) /\ s.hasTrigger
         THEN [s EXCEPT !.triggerMessage = msg]
         ELSE s

\* faulty variant: every trigger restarts the max-wait timer
applyTrigger_Restart(s, msg) ==
    IF triggerCheck(msg) /\ ~s.hasTrigger
    THEN scheduleMaxWaitFlush(clearAutoReplyTimer(
            [s EXCEPT !.hasTrigger = TRUE, !.triggerMessage = msg, !.firstTriggerAge = 0]))
    ELSE IF triggerCheck(msg) /\ s.hasTrigger
         THEN scheduleMaxWaitFlush([s EXCEPT !.triggerMessage = msg])
         ELSE s

\* faulty variant: later triggers do not replace the recorded trigger message
applyTrigger_KeepFirst(s, msg) ==
    IF triggerCheck(msg) /\ ~s.hasTrigger
    THEN scheduleMaxWaitFlush(clearAutoReplyTimer(
            [s EXCEPT !.hasTrigger = TRUE, !.triggerMessage = msg, !.firstTriggerAge = 0]))
    ELSE s

\* the trigger branch of processMessage
applyTrigger(s, msg) ==
    IF triggerCheck(msg) /\ ~s.hasTrigger
    THEN scheduleMaxWaitFlush(clearAutoReplyTimer(
            [s EXCEPT !.hasTrigger = TRUE, !.triggerMessage = msg, !.firstTriggerAge = 0]))
    ELSE IF triggerCheck(msg) /\ s.hasTrigger
         THEN [s EXCEPT !.triggerMessage = msg]
         ELSE s

\* the mode dispatch that ends processMessage
scheduleFlush(s) ==
    IF s.mode = "startup" THEN scheduleStartupFlush(s) ELSE scheduleRealtimeFlush(s)

\* faulty variant: the pending auto-reply timer is not cleared before re-arming
processMessage_KeepAutoReply(msg) ==
    LET s0 == IF hasState(msg.chatId) THEN chatStates[msg.chatId] ELSE newChatState(msg.chatId)
        s1 == [s0 EXCEPT !.buffer = Append(@, msg), !.lastMessageAge = 0,
                         !.firstBufferedAge = IF arrivals /\ Len(s0.buffer) = 0 THEN 0 ELSE @]
        s2 == applyTrigger(s1, msg)
        s3 == clearDebounceTimer(s2)
    IN  scheduleFlush(s3)

\* faulty variant: the pending debounce timer is not cleared before re-arming
processMessage_NoClear(msg) ==
    LET s0 == IF hasState(msg.chatId) THEN chatStates[msg.chatId] ELSE newChatState(msg.chatId)
        s1 == [s0 EXCEPT !.buffer = Append(@, msg), !.lastMessageAge = 0,
                         !.firstBufferedAge = IF arrivals /\ Len(s0.buffer) = 0 THEN 0 ELSE @]
        s2 == applyTrigger(s1, msg)
        s3 == clearAutoReplyTimer(s2)
    IN  scheduleFlush(s3)

\* faulty variant: the state is looked up under a key that is the same for
\* every chat
processMessage_SharedKey(msg) ==
    LET s0 == IF DOMAIN chatStates # {}
              THEN chatStates[CHOOSE c \in DOMAIN chatStates : TRUE]
              ELSE newChatState(msg.chatId)
        s1 == [s0 EXCEPT !.buffer = Append(@, msg), !.lastMessageAge = 0,
                         !.firstBufferedAge = IF arrivals /\ Len(s0.buffer) = 0 THEN 0 ELSE @]
        s2 == applyTrigger(s1, msg)
        s3 == clearAutoReplyTimer(clearDebounceTimer(s2))
    IN  scheduleFlush(s3)

processMessage(msg) ==
    LET s0 == IF hasState(msg.chatId) THEN chatStates[msg.chatId] ELSE newChatState(msg.chatId)
        s1 == [s0 EXCEPT !.buffer = Append(@, msg), !.lastMessageAge = 0,
                         !.firstBufferedAge = IF arrivals /\ Len(s0.buffer) = 0 THEN 0 ELSE @]
        s2 == applyTrigger(s1, msg)
        s3 == clearAutoReplyTimer(clearDebounceTimer(s2))
    IN  scheduleFlush(s3)

\* faulty variant: dispose() forgets the max-wait timers
disposeStates_KeepMaxWait == {clearAutoReplyTimer(clearDebounceTimer(chatStates[c])) :
                                c \in DOMAIN chatStates}

\* the state objects dispose() leaves behind: every timer of every mapped
\* state is cleared, so none of them is reachable by a timer any more
disposeStates == {clearAutoReplyTimer(clearMaxWaitTimer(clearDebounceTimer(chatStates[c]))) :
                    c \in DOMAIN chatStates}

\* state.batchProcessor.dispose() as stopGateway and the abort handler call
\* it, if a processor exists: the conversations are dropped with their timers
disposeProcessor(processor) ==
    IF processor = "live"
    THEN /\ chatStates' = <<>>
         /\ detached' = detached \cup {s \in disposeStates : Pending(s)}
    ELSE UNCHANGED <<chatStates, detached>>

\* ------------------------------------------------------------------------
\* Actions of the batch processor
\* ------------------------------------------------------------------------
InitBatchIn(scenarios) ==
    /\ \E sc \in scenarios :
          /\ conversations = sc.chats
          /\ budget = sc.msgs
          /\ direct = sc.direct
          /\ onFlushRejects = sc.rejects
          /\ arrivals = sc.arrivals
          /\ awaited = sc.awaited
          /\ autoReplyConfig = sc.autoReply
    /\ sinceConnected = 0
    /\ chatStates = <<>>
    /\ detached = {}
    /\ nextMsgId = 1
    /\ flushed = [c \in Chats |-> 0]
    /\ accounted = [c \in Chats |-> 0]
    /\ dispatching = [c \in Chats |-> 0]
    /\ rejectedUpTo = [c \in Chats |-> 0]
    /\ lastFlush = NoFlush
    /\ everTriggered = {}
    /\ disposedIdle = FALSE
    /\ cancelled = NoTimer
    /\ sinceDisposed = NoTime

\* the ways an onFlush call can settle: TRUE resolves, FALSE rejects
Outcomes == IF onFlushRejects THEN BOOLEAN ELSE {TRUE}

\* store the state object s (reached through the map or only by its timers)
\* after a timer callback turned it into t, and record the onFlush call
Store(s, r) ==
    /\ IF hasState(s.chatId) /\ chatStates[s.chatId] = s
       THEN /\ chatStates' = [chatStates EXCEPT ![s.chatId] = r.state]
            /\ detached' = detached
       ELSE /\ detached' = (detached \ {s}) \cup (IF Pending(r.state) THEN {r.state} ELSE {})
            /\ chatStates' = chatStates
    /\ flushed' = IF r.payload = NoFlush THEN flushed ELSE [flushed EXCEPT ![s.chatId] = @ + 1]
    /\ accounted' = IF r.payload = NoFlush THEN accounted
                    ELSE [accounted EXCEPT ![s.chatId] =
                            r.payload.messages[Len(r.payload.messages)].messageId]
    /\ dispatching' = IF awaited /\ r.payload # NoFlush
                      THEN [dispatching EXCEPT ![s.chatId] = @ + 1]
                      ELSE dispatching
    /\ rejectedUpTo' = IF r.payload # NoFlush /\ r.payload.rejected
                       THEN [rejectedUpTo EXCEPT ![s.chatId] =
                               r.payload.messages[Len(r.payload.messages)].messageId]
                       ELSE rejectedUpTo
    /\ lastFlush' = r.payload

ProcessMessage ==
    /\ nextMsgId <= budget
    /\ direct \/ ~disposedIdle
    /\ \E c \in conversations, b \in BOOLEAN :
          LET msg == [messageId |-> nextMsgId, chatId |-> c, mentionedBot |-> b]
              s == processMessage(msg)
          IN  /\ chatStates' = [x \in DOMAIN chatStates \cup {c} |->
                                    IF x = c THEN s ELSE chatStates[x]]
              /\ everTriggered' = IF triggerCheck(msg) THEN everTriggered \cup {c} ELSE everTriggered
    /\ nextMsgId' = nextMsgId + 1
    /\ disposedIdle' = FALSE
    /\ cancelled' = NoTimer
    /\ sinceDisposed' = NoTime
    /\ lastFlush' = NoFlush
    /\ UNCHANGED <<conversations, budget, direct, arrivals, awaited, onFlushRejects, autoReplyConfig, sinceConnected, detached, flushed,
                   accounted, dispatching, rejectedUpTo>>
    /\ UNCHANGED <<queueVars, gatewayVars, otherVars>>

\* the state object as a timer callback finds it: the timer that fired is no
\* longer pending (t is the field value NoTimer, or the stray timer that fired)
Fired(s, kind) ==
    { [s EXCEPT !.debounceTimer = IF kind = "debounce" THEN NoTimer ELSE @,
                !.maxWaitTimer = IF kind = "maxWait" THEN NoTimer ELSE @,
                !.autoReplyTimer = IF kind = "autoReply" THEN NoTimer ELSE @] :
        x \in IF (kind = "debounce" /\ s.debounceTimer = 0)
                 \/ (kind = "maxWait" /\ s.maxWaitTimer = 0)
                 \/ (kind = "autoReply" /\ s.autoReplyTimer = 0)
              THEN {0} ELSE {} }
    \cup { [s EXCEPT !.stray = @ \ {t}] : t \in {u \in s.stray : u.kind = kind /\ u.left = 0} }

DebounceTimerFires ==
    /\ \E s \in LiveStates : \E f \in Fired(s, "debounce") : \E ok \in Outcomes :
          Store(s, handOff(f, flushIfTriggered(f, "debounce"), ok))
    /\ UNCHANGED <<conversations, budget, direct, arrivals, awaited, onFlushRejects, autoReplyConfig, sinceConnected, nextMsgId, everTriggered,
                   disposedIdle, cancelled, sinceDisposed>>
    /\ UNCHANGED <<queueVars, gatewayVars, otherVars>>

MaxWaitTimerFires ==
    /\ \E s \in LiveStates : \E f \in Fired(s, "maxWait") : \E ok \in Outcomes :
          Store(s, handOff(f, flushIfTriggered(f, "maxWait"), ok))
    /\ UNCHANGED <<conversations, budget, direct, arrivals, awaited, onFlushRejects, autoReplyConfig, sinceConnected, nextMsgId, everTriggered,
                   disposedIdle, cancelled, sinceDisposed>>
    /\ UNCHANGED <<queueVars, gatewayVars, otherVars>>

AutoReplyTimerFires ==
    /\ \E s \in LiveStates : \E f \in Fired(s, "autoReply") : \E ok \in Outcomes :
          Store(s, handOff(f, checkAutoReplyConditions(f), ok))
    /\ UNCHANGED <<conversations, budget, direct, arrivals, awaited, onFlushRejects, autoReplyConfig, sinceConnected, nextMsgId, everTriggered,
                   disposedIdle, cancelled, sinceDisposed>>
    /\ UNCHANGED <<queueVars, gatewayVars, otherVars>>

\* faulty variant: flush(chatId) hands the batch over and leaves its timers
flush_KeepTimers(s) ==
    IF ~s.hasTrigger \/ s.triggerMessage = NoMsg
    THEN [state |-> [s EXCEPT !.mode = "realtime"], payload |-> NoFlush]
    ELSE [state |-> resetState(s), payload |-> Payload(s, FALSE, "flush")]

\* flush(chatId) on the state found for chatId
flush(s) == flushIfTriggered(s, "flush")

\* the public flush(chatId), for a chat id with or without a state
Flush ==
    /\ direct
    /\ \E c \in conversations : \E ok \in Outcomes :
          IF hasState(c)
          THEN Store(chatStates[c], handOff(chatStates[c], flush(chatStates[c]), ok))
          ELSE /\ lastFlush' = NoFlush
               /\ UNCHANGED <<chatStates, detached, flushed, accounted, dispatching,
                               rejectedUpTo>>
    /\ UNCHANGED <<conversations, budget, direct, arrivals, awaited, onFlushRejects, autoReplyConfig, sinceConnected, nextMsgId, everTriggered,
                   disposedIdle, cancelled, sinceDisposed>>
    /\ UNCHANGED <<queueVars, gatewayVars, otherVars>>

\* the time left of the timers dispose() clears on the mapped states
ClearedByDispose ==
    UNION {{chatStates[c].debounceTimer, chatStates[c].maxWaitTimer,
            chatStates[c].autoReplyTimer} : c \in DOMAIN chatStates}

LongestLeft(T) == IF T = {} THEN NoTimer ELSE CHOOSE t \in T : \A u \in T : u <= t

Dispose ==
    /\ detached' = detached \cup {s \in disposeStates : Pending(s)}
    /\ chatStates' = <<>>
    /\ disposedIdle' = TRUE
    /\ cancelled' = LongestLeft(ClearedByDispose)
    /\ sinceDisposed' = 0
    /\ lastFlush' = NoFlush
    /\ accounted' = [c \in Chats |->
                        IF hasState(c) /\ Len(chatStates[c].buffer) > 0
                        THEN chatStates[c].buffer[Len(chatStates[c].buffer)].messageId
                        ELSE accounted[c]]
    /\ UNCHANGED <<conversations, budget, direct, arrivals, awaited, onFlushRejects, autoReplyConfig, sinceConnected, nextMsgId, flushed, dispatching, rejectedUpTo,
                   everTriggered>>
    /\ UNCHANGED <<queueVars, gatewayVars, otherVars>>

\* saturation points: each is above every threshold the age is compared with
IdleCap == Max(REALTIME_DEBOUNCE_MS, debounceMsOf(autoReplyConfig)) + TickMs
WaitCap == MAX_BATCH_WAIT_MS + TickMs
ElapsedCap ==
    IF autoReplyConfig.enabled
    THEN minTimeMsOf(autoReplyConfig) + debounceMsOf(autoReplyConfig) + TickMs
    ELSE TickMs

\* the age of the oldest buffered message is compared with minTimeMs only
BufferedCap == minTimeMsOf(autoReplyConfig) + TickMs

DisposedCap == Max(0, cancelled) + TickMs

Age(a, cap) == IF a = NoTime THEN NoTime ELSE Min(cap, a + TickMs)
Left(t) == IF t = NoTimer THEN NoTimer ELSE Max(0, t - TickMs)

Elapse(s) ==
    [s EXCEPT !.debounceTimer = Left(@),
              !.maxWaitTimer = Left(@),
              !.autoReplyTimer = Left(@),
              !.stray = {[t EXCEPT !.left = Left(@)] : t \in @},
              !.lastMessageAge = Age(@, IdleCap),
              !.firstTriggerAge = Age(@, WaitCap),
              !.firstMessageAge = Age(@, ElapsedCap),
              !.firstBufferedAge = Age(@, BufferedCap)]

Due(s) ==
    \/ s.debounceTimer = 0
    \/ s.maxWaitTimer = 0
    \/ s.autoReplyTimer = 0
    \/ \E t \in s.stray : t.left = 0

Tick ==
    /\ \A s \in LiveStates : ~Due(s)
    /\ sinceConnected' = Min(STARTUP_WINDOW_MS, sinceConnected + TickMs)
    /\ chatStates' = [c \in DOMAIN chatStates |-> Elapse(chatStates[c])]
    /\ detached' = {Elapse(s) : s \in detached}
    /\ lastFlush' = NoFlush
    /\ sinceDisposed' = Age(sinceDisposed, DisposedCap)
    /\ UNCHANGED <<conversations, budget, direct, arrivals, awaited, onFlushRejects, autoReplyConfig, nextMsgId, flushed, accounted, dispatching, rejectedUpTo, everTriggered,
                   disposedIdle, cancelled>>
    /\ UNCHANGED <<queueVars, gatewayVars, otherVars>>

\* an onFlush call (the dispatch to the agent) settles
OnFlushSettles ==
    /\ \E c \in Chats :
          /\ dispatching[c] > 0
          /\ dispatching' = [dispatching EXCEPT ![c] = @ - 1]
    /\ lastFlush' = NoFlush
    /\ UNCHANGED <<conversations, budget, direct, arrivals, awaited, onFlushRejects, autoReplyConfig,
                   sinceConnected, chatStates, detached, nextMsgId, flushed, accounted,
                   rejectedUpTo, everTriggered, disposedIdle, cancelled, sinceDisposed>>
    /\ UNCHANGED <<queueVars, gatewayVars, otherVars>>

NextBatch ==
    \/ ProcessMessage
    \/ DebounceTimerFires
    \/ MaxWaitTimerFires
    \/ AutoReplyTimerFires
    \/ Flush
    \/ Dispose
    \/ Tick

\* ------------------------------------------------------------------------
\* Per-chat message queue (core/gateway.ts)
\* ------------------------------------------------------------------------
\* A ChatQueue object: messages are the pending task ids, running is the task
\* the worker (processQueue) awaits, 0 when no handler is in flight.  The
\* object is named by the id of the first task pushed to it.
NoTask == 0

InitQueue ==
    /\ chatQueues = <<>>
    /\ queueHeap = <<>>
    /\ nextTask = 1
    /\ taskChat = <<>>
    /\ taskTime = <<>>
    /\ started = <<>>
    /\ failedTasks = {}

\* faulty variant: a drained queue keeps its map entry
workerLoop_NoDelete(q, heap, map) ==
    IF Len(heap[q].messages) > 0
    THEN [heap |-> [heap EXCEPT ![q].running = Head(heap[q].messages),
                                ![q].messages = Tail(@)],
          map |-> map,
          start |-> <<Head(heap[q].messages)>>]
    ELSE [heap |-> [heap EXCEPT ![q].processing = FALSE],
          map |-> map,
          start |-> <<>>]

\* the worker loop of processQueue from the loop test to its next await (or
\* to its return): q is the queue object the worker holds, heap and map are
\* the values the loop starts from
workerLoop(q, heap, map) ==
    IF Len(heap[q].messages) > 0
    THEN [heap |-> [heap EXCEPT ![q].running = Head(heap[q].messages),
                                ![q].messages = Tail(@)],
          map |-> map,
          start |-> <<Head(heap[q].messages)>>]
    ELSE [heap |-> [x \in DOMAIN heap \ {q} |-> heap[x]],
          map |-> [c \in DOMAIN map \ {heap[q].chatId} |-> map[c]],
          start |-> <<>>]

\* processQueue(chatId) called from enqueueMessage
processQueue(chatId, heap, map) ==
    IF chatId \notin DOMAIN map \/ heap[map[chatId]].processing
    THEN [heap |-> heap, map |-> map, start |-> <<>>]
    ELSE workerLoop(map[chatId], [heap EXCEPT ![map[chatId]].processing = TRUE], map)

\* faulty variant: every chat is queued under the same key
enqueueMessage_OneKey(chatId, task) ==
    LET key == "unknown"
        fresh == key \notin DOMAIN chatQueues
        q == IF fresh THEN task ELSE chatQueues[key]
        map == [c \in DOMAIN chatQueues \cup {key} |-> IF c = key THEN q ELSE chatQueues[c]]
        heap0 == [x \in DOMAIN queueHeap \cup {q} |->
                    IF x = q /\ fresh
                    THEN [chatId |-> key, messages |-> <<>>, processing |-> FALSE,
                          running |-> NoTask]
                    ELSE queueHeap[x]]
        heap1 == [heap0 EXCEPT ![q].messages = Append(@, task)]
    IN  IF ~heap1[q].processing
        THEN processQueue(key, heap1, map)
        ELSE [heap |-> heap1, map |-> map, start |-> <<>>]

enqueueMessage(chatId, task) ==
    LET fresh == chatId \notin DOMAIN chatQueues
        q == IF fresh THEN task ELSE chatQueues[chatId]
        map == [c \in DOMAIN chatQueues \cup {chatId} |-> IF c = chatId THEN q ELSE chatQueues[c]]
        heap0 == [x \in DOMAIN queueHeap \cup {q} |->
                    IF x = q /\ fresh
                    THEN [chatId |-> chatId, messages |-> <<>>, processing |-> FALSE,
                          running |-> NoTask]
                    ELSE queueHeap[x]]
        heap1 == [heap0 EXCEPT ![q].messages = Append(@, task)]
    IN  IF ~heap1[q].processing
        THEN processQueue(chatId, heap1, map)
        ELSE [heap |-> heap1, map |-> map, start |-> <<>>]

clearAllQueues(map) == <<>>

EnqueueMessage ==
    /\ nextTask <= MaxTasks
    /\ \E c \in Chats :
          LET r == enqueueMessage(c, nextTask)
          IN  /\ chatQueues' = r.map
              /\ queueHeap' = r.heap
              /\ started' = started \o r.start
              /\ taskChat' = Append(taskChat, c)
              /\ taskTime' = Append(taskTime, NoTime)
    /\ nextTask' = nextTask + 1
    /\ failedTasks' = failedTasks
    /\ UNCHANGED <<batchVars, gatewayVars, otherVars>>

\* faulty variant: a rejection is not caught and ends processQueue
taskSettled_Uncaught(q, ok, heap, map) ==
    IF ok
    THEN workerLoop(q, [heap EXCEPT ![q].running = NoTask], map)
    ELSE [heap |-> [heap EXCEPT ![q].running = NoTask], map |-> map, start |-> <<>>]

\* try { await item.handler() } catch (e) { logger.error(...) }: the awaited
\* handler of the worker on q resolved (ok) or rejected; either way the
\* worker goes round its loop
taskSettled(q, ok, heap, map) ==
    workerLoop(q, [heap EXCEPT ![q].running = NoTask], map)

\* the handler a worker awaits settles with one of the given outcomes
TaskSettles(outcomes) ==
    /\ \E q \in DOMAIN queueHeap : \E ok \in outcomes :
          /\ queueHeap[q].running # NoTask
          /\ LET r == taskSettled(q, ok, queueHeap, chatQueues)
             IN  /\ chatQueues' = r.map
                 /\ queueHeap' = r.heap
                 /\ started' = started \o r.start
          /\ failedTasks' = IF ok THEN failedTasks ELSE failedTasks \cup {queueHeap[q].running}
          /\ awaiting' = awaiting \ {queueHeap[q].running}
          /\ handling' = handling
    /\ UNCHANGED <<nextTask, taskChat, taskTime>>
    /\ UNCHANGED <<batchVars, processedEvents, chatWatermarks, dedupCleanupTimer, nextEvent,
                   expired, otherVars>>

HandlerDone ==
    /\ TaskSettles(BOOLEAN)
    /\ UNCHANGED lastEvent

\* stopGateway: clearAllQueues drops every map entry; a worker in the middle of
\* a task keeps its queue object
ClearAllQueues ==
    /\ chatQueues' = clearAllQueues(chatQueues)
    /\ queueHeap' = [x \in {y \in DOMAIN queueHeap : queueHeap[y].processing} |-> queueHeap[x]]
    /\ UNCHANGED <<nextTask, taskChat, taskTime, started, failedTasks>>
    /\ UNCHANGED <<batchVars, gatewayVars, otherVars>>

NextQueue ==
    \/ EnqueueMessage
    \/ HandlerDone
    \/ ClearAllQueues

\* ------------------------------------------------------------------------
\* Transport handler, dedup ledger and watermarks (core/gateway.ts)
\* ------------------------------------------------------------------------
\* A message event carries the age of its create_time on arrival
\* (Date.now() - create_time), NoTime when create_time is missing, and "" for
\* a missing event id or chat id.  Two time scales are explored apart:
\*   SpecGateway  runs shorter than the cleanup interval: no time passes
\*                between the events, whose create_times are in any order;
\*   SpecLedger   the clock advances in steps of HourMs, the largest step
\*                dividing the retention window and the cleanup interval,
\*                and the events carry no create_time and no chat id.
HourMs == Gcd(DEDUP_WINDOW_MS, DEDUP_CLEANUP_MS)

EventIds == {"", "ev_1", "ev_2"}
EventChats == {"", "oc_a", "oc_b"}
EventAges == {NoTime, 0, 60000, MAX_MESSAGE_AGE_MS, MAX_MESSAGE_AGE_MS + 60000}

NoEvent == [eventId |-> "", chatId |-> "", ageMs |-> NoTime, verdict |-> "",
            seenAge |-> NoTime, watermark |-> NoTime, task |-> NoTask]

InitGateway ==
    /\ processedEvents = <<>>
    /\ chatWatermarks = <<>>
    /\ dedupCleanupTimer = DEDUP_CLEANUP_MS
    /\ nextEvent = 1
    /\ lastEvent = NoEvent
    /\ expired = {}
    /\ awaiting = {}
    /\ handling = <<>>

\* faulty variant: a create_time equal to the watermark is let through
isStaleMessage_Strict(marks, chatId, ageMs) ==
    chatId \in DOMAIN marks /\ ageMs > marks[chatId]

\* createTime <= (chatWatermarks.get(chatId) ?? 0), for a create_time after the epoch
isStaleMessage(marks, chatId, ageMs) ==
    chatId \in DOMAIN marks /\ ageMs >= marks[chatId]

\* faulty variant: the stored value is overwritten without comparing
updateWatermark_Overwrite(marks, chatId, ageMs) ==
    [c \in DOMAIN marks \cup {chatId} |-> IF c = chatId THEN ageMs ELSE marks[c]]

\* createTime > (chatWatermarks.get(chatId) ?? 0) => set; a later create_time
\* is a smaller age
updateWatermark(marks, chatId, ageMs) ==
    IF chatId \notin DOMAIN marks \/ ageMs < marks[chatId]
    THEN [c \in DOMAIN marks \cup {chatId} |-> IF c = chatId THEN ageMs ELSE marks[c]]
    ELSE marks

\* faulty variant: a duplicate refreshes the recorded timestamp
isDuplicateEvent_Refresh(ledger, eventId) ==
    [dup |-> eventId \in DOMAIN ledger,
     ledger |-> [e \in DOMAIN ledger \cup {eventId} |-> IF e = eventId THEN 0 ELSE ledger[e]]]

\* faulty variant: an id the ledger holds is not reported as a duplicate
isDuplicateEvent_Blind(ledger, eventId) ==
    [dup |-> FALSE,
     ledger |-> IF eventId \in DOMAIN ledger THEN ledger
                ELSE [e \in DOMAIN ledger \cup {eventId} |->
                        IF e = eventId THEN 0 ELSE ledger[e]]]

\* isDuplicateEvent: the verdict and the ledger it leaves
isDuplicateEvent(ledger, eventId) ==
    IF eventId \in DOMAIN ledger
    THEN [dup |-> TRUE, ledger |-> ledger]
    ELSE [dup |-> FALSE,
          ledger |-> [e \in DOMAIN ledger \cup {eventId} |->
                        IF e = eventId THEN 0 ELSE ledger[e]]]

\* the callback of the cleanup interval
dedupSweep(ledger) ==
    [e \in {x \in DOMAIN ledger : ~(ledger[x] > DEDUP_WINDOW_MS)} |-> ledger[e]]

\* faulty variant: the watermark is left for the queued task to advance
receiveFilter_LateWatermark(ev) ==
    LET d == IF ev.eventId # ""
             THEN isDuplicateEvent(processedEvents, ev.eventId)
             ELSE [dup |-> FALSE, ledger |-> processedEvents]
        hasTime == ev.ageMs # NoTime
    IN  IF d.dup
        THEN [verdict |-> "duplicate", ledger |-> d.ledger, marks |-> chatWatermarks]
        ELSE IF ev.chatId # "" /\ hasTime /\ isStaleMessage(chatWatermarks, ev.chatId, ev.ageMs)
             THEN [verdict |-> "stale", ledger |-> d.ledger, marks |-> chatWatermarks]
             ELSE IF hasTime /\ ev.ageMs > MAX_MESSAGE_AGE_MS
                  THEN [verdict |-> "too_old", ledger |-> d.ledger, marks |-> chatWatermarks]
                  ELSE [verdict |-> "enqueued", ledger |-> d.ledger, marks |-> chatWatermarks]

\* the im.message.receive_v1 handler up to the point where it returns or
\* enqueues: the verdict, the ledger and the watermarks it leaves
receiveFilter(ev) ==
    LET d == IF ev.eventId # ""
             THEN isDuplicateEvent(processedEvents, ev.eventId)
             ELSE [dup |-> FALSE, ledger |-> processedEvents]
        hasTime == ev.ageMs # NoTime
    IN  IF d.dup
        THEN [verdict |-> "duplicate", ledger |-> d.ledger, marks |-> chatWatermarks]
        ELSE IF ev.chatId # "" /\ hasTime /\ isStaleMessage(chatWatermarks, ev.chatId, ev.ageMs)
             THEN [verdict |-> "stale", ledger |-> d.ledger, marks |-> chatWatermarks]
             ELSE IF hasTime /\ ev.ageMs > MAX_MESSAGE_AGE_MS
                  THEN [verdict |-> "too_old", ledger |-> d.ledger, marks |-> chatWatermarks]
                  ELSE [verdict |-> "enqueued", ledger |-> d.ledger,
                        marks |-> IF ev.chatId # "" /\ hasTime
                                  THEN updateWatermark(chatWatermarks, ev.chatId, ev.ageMs)
                                  ELSE chatWatermarks]

\* faulty variant: the handler awaits the processing of the message, as the
\* handler did before the queue was introduced
handlerAwaits_Task(task) == {task}

\* what the message handler waits for after enqueueMessage(...) before it
\* returns: enqueueMessage returns nothing and nothing is awaited
handlerAwaits(task) == {}

Receive(ids, chats, ages, maxEvents) ==
    /\ nextEvent <= maxEvents
    /\ nextTask <= MaxTasks
    /\ \E id \in ids, c \in chats, a \in ages :
          LET ev == [eventId |-> id, chatId |-> c, ageMs |-> a]
              f == receiveFilter(ev)
              queueChatId == IF c # "" THEN c ELSE "unknown"
              r == enqueueMessage(queueChatId, nextTask)
              out == [eventId |-> id, chatId |-> c, ageMs |-> a, verdict |-> f.verdict,
                      seenAge |-> IF id \in DOMAIN processedEvents THEN processedEvents[id]
                                  ELSE NoTime,
                      watermark |-> IF c \in DOMAIN chatWatermarks THEN chatWatermarks[c]
                                    ELSE NoTime,
                      task |-> IF f.verdict = "enqueued" THEN nextTask ELSE NoTask]
          IN  /\ processedEvents' = f.ledger
              /\ chatWatermarks' = f.marks
              /\ lastEvent' = out
              /\ IF f.verdict = "enqueued"
                 THEN /\ chatQueues' = r.map
                      /\ queueHeap' = r.heap
                      /\ started' = started \o r.start
                      /\ taskChat' = Append(taskChat, queueChatId)
                      /\ taskTime' = Append(taskTime, a)
                      /\ failedTasks' = failedTasks
                      /\ nextTask' = nextTask + 1
                      /\ awaiting' = awaiting \cup handlerAwaits(nextTask)
                 ELSE UNCHANGED <<queueVars, awaiting>>
    /\ handling' = handling
    /\ nextEvent' = nextEvent + 1
    /\ UNCHANGED <<dedupCleanupTimer, expired>>
    /\ UNCHANGED <<batchVars, otherVars>>

ReceiveEvent == Receive(EventIds, EventChats, EventAges, MaxEvents)

ReceiveUntimed == Receive(EventIds \ {""}, {""}, {NoTime}, MaxLedgerEvents)

\* the handler of a running task settles; what it settled with is not
\* recorded here
HandlerSettles ==
    /\ TaskSettles({TRUE})
    /\ lastEvent' = NoEvent

SweepFires ==
    /\ dedupCleanupTimer = 0
    /\ processedEvents' = dedupSweep(processedEvents)
    /\ expired' = expired \cup (DOMAIN processedEvents \ DOMAIN processedEvents')
    /\ dedupCleanupTimer' = DEDUP_CLEANUP_MS
    /\ lastEvent' = NoEvent
    /\ UNCHANGED <<chatWatermarks, nextEvent, awaiting, handling>>
    /\ UNCHANGED <<batchVars, queueVars, otherVars>>

\* stopGateway: stopDedupCleanup and clearAllQueues (the watermarks are kept)
StopGateway ==
    /\ dedupCleanupTimer' = NoTimer
    /\ processedEvents' = <<>>
    /\ chatQueues' = clearAllQueues(chatQueues)
    /\ queueHeap' = [x \in {y \in DOMAIN queueHeap : queueHeap[y].processing} |-> queueHeap[x]]
    /\ lastEvent' = NoEvent
    /\ shouldStop' = TRUE
    /\ batchProcessor' = IF batchProcessor = "live" THEN "disposed" ELSE batchProcessor
    /\ isReconnecting' = FALSE
    /\ reconnectAttempts' = 0
    /\ UNCHANGED <<chatWatermarks, nextEvent, expired, awaiting, handling, nextTask, taskChat, taskTime, started,
                   failedTasks>>
    /\ UNCHANGED <<pc, aborted, listening, linkUp, delay, prevDelay, failuresInRow,
                   attemptsStarted>>
    /\ disposeProcessor(batchProcessor)
    /\ UNCHANGED <<conversations, budget, direct, arrivals, awaited, onFlushRejects, autoReplyConfig,
                   sinceConnected, nextMsgId, flushed, accounted, dispatching, rejectedUpTo,
                   lastFlush, everTriggered, disposedIdle, cancelled, sinceDisposed>>
    /\ UNCHANGED registryVars

\* startGateway after a stopGateway, up to startDedupCleanup: the state is
\* reset and a new batch processor is created (the probe and the connection
\* loop are left out here, see the supervisor below)
StartGateway ==
    /\ dedupCleanupTimer = NoTimer
    /\ dedupCleanupTimer' = DEDUP_CLEANUP_MS
    /\ lastEvent' = NoEvent
    /\ shouldStop' = FALSE
    /\ isReconnecting' = FALSE
    /\ reconnectAttempts' = 0
    /\ batchProcessor' = "live"
    /\ UNCHANGED <<processedEvents, chatWatermarks, nextEvent, expired, awaiting, handling>>
    /\ UNCHANGED <<pc, aborted, listening, linkUp, delay, prevDelay, failuresInRow,
                   attemptsStarted>>
    /\ UNCHANGED <<batchVars, queueVars>>
    /\ UNCHANGED registryVars

LedgerCap == DEDUP_WINDOW_MS + 2 * HourMs

HourPasses ==
    /\ dedupCleanupTimer # 0
    /\ dedupCleanupTimer' = IF dedupCleanupTimer = NoTimer THEN NoTimer
                            ELSE Max(0, dedupCleanupTimer - HourMs)
    /\ processedEvents' = [e \in DOMAIN processedEvents |->
                              Min(LedgerCap, processedEvents[e] + HourMs)]
    /\ chatWatermarks' = [c \in DOMAIN chatWatermarks |->
                              Min(HourMs, chatWatermarks[c] + HourMs)]
    /\ lastEvent' = NoEvent
    /\ UNCHANGED <<nextEvent, expired, awaiting, handling>>
    /\ UNCHANGED <<batchVars, queueVars, otherVars>>

\* ------------------------------------------------------------------------
\* The queued task: handleMessage for a group message (message-handler.ts)
\* ------------------------------------------------------------------------
\* The task of an event is the closure that calls handleMessage with
\* state.batchProcessor ?? undefined, read when the worker starts the task.
\* handleMessage first awaits the lookup of the sender's name; for a group
\* message it then either hands the message to the batch processor it was
\* given and returns, or, without a processor, records an unmentioned message
\* to the history and returns, or awaits dispatchToAgent.

\* the handlers of the tasks a worker has just started run to their first
\* await: the sender lookup
beginHandlers(h, tasks, processor) ==
    [t \in DOMAIN h \cup tasks |->
        IF t \in tasks
        THEN [batchProcessor |-> IF processor = "live" THEN "live" ELSE "none", at |-> "lookup"]
        ELSE h[t]]

TasksIn(seq) == {seq[i] : i \in 1..Len(seq)}

\* a group message of a chat is received while the gateway runs and its task
\* is enqueued
MessageArrives ==
    /\ ~shouldStop
    /\ nextTask <= MaxTasks
    /\ \E c \in conversations :
          LET r == enqueueMessage(c, nextTask)
          IN  /\ chatQueues' = r.map
              /\ queueHeap' = r.heap
              /\ started' = started \o r.start
              /\ taskChat' = Append(taskChat, c)
              /\ taskTime' = Append(taskTime, NoTime)
              /\ handling' = beginHandlers(handling, TasksIn(r.start), batchProcessor)
    /\ nextTask' = nextTask + 1
    /\ failedTasks' = failedTasks
    /\ lastEvent' = NoEvent
    /\ UNCHANGED <<processedEvents, chatWatermarks, dedupCleanupTimer, nextEvent, expired, awaiting>>
    /\ UNCHANGED <<batchVars, otherVars>>

\* the handler of task t, awaited by the worker on q, returns
handlerReturns(q, t, outcome) ==
    LET r == taskSettled(q, TRUE, queueHeap, chatQueues)
    IN  /\ chatQueues' = r.map
        /\ queueHeap' = r.heap
        /\ started' = started \o r.start
        /\ handling' = beginHandlers([handling EXCEPT ![t].at = outcome], TasksIn(r.start),
                                     batchProcessor)
        /\ UNCHANGED <<nextTask, taskChat, taskTime, failedTasks>>

\* the sender lookup of a running task settles and handleMessage goes on to
\* its end or to the await of dispatchToAgent
SenderLookupSettles ==
    /\ \E q \in DOMAIN queueHeap : \E mentionedBot \in BOOLEAN :
          LET t == queueHeap[q].running
          IN  /\ t # NoTask
              /\ t \in DOMAIN handling
              /\ handling[t].at = "lookup"
              /\ IF handling[t].batchProcessor = "live"
                 THEN \* batchProcessor.processMessage(parsed, event); return
                      LET msg == [messageId |-> nextMsgId, chatId |-> taskChat[t],
                                  mentionedBot |-> mentionedBot]
                          st == processMessage(msg)
                      IN  /\ nextMsgId <= budget
                          /\ chatStates' = [x \in DOMAIN chatStates \cup {msg.chatId} |->
                                                IF x = msg.chatId THEN st ELSE chatStates[x]]
                          /\ everTriggered' = IF triggerCheck(msg)
                                              THEN everTriggered \cup {msg.chatId}
                                              ELSE everTriggered
                          /\ nextMsgId' = nextMsgId + 1
                          /\ disposedIdle' = FALSE
                          /\ cancelled' = NoTimer
                          /\ sinceDisposed' = NoTime
                          /\ lastFlush' = NoFlush
                          /\ handlerReturns(q, t, "batched")
                 ELSE /\ UNCHANGED <<chatStates, everTriggered, nextMsgId, disposedIdle, cancelled,
                                     sinceDisposed, lastFlush>>
                      /\ IF mentionedBot
                         THEN \* await dispatchToAgent(...)
                              /\ handling' = [handling EXCEPT ![t].at = "dispatch"]
                              /\ UNCHANGED queueVars
                         ELSE \* requireMention: recorded to the history; return
                              handlerReturns(q, t, "recorded")
    /\ lastEvent' = NoEvent
    /\ UNCHANGED <<conversations, budget, direct, arrivals, awaited, onFlushRejects, autoReplyConfig,
                   sinceConnected, detached, flushed, accounted, dispatching, rejectedUpTo>>
    /\ UNCHANGED <<processedEvents, chatWatermarks, dedupCleanupTimer, nextEvent, expired, awaiting>>
    /\ UNCHANGED otherVars

\* the dispatchToAgent call a handler awaits settles and the handler returns
DispatchSettles ==
    /\ \E q \in DOMAIN queueHeap :
          LET t == queueHeap[q].running
          IN  /\ t # NoTask
              /\ t \in DOMAIN handling
              /\ handling[t].at = "dispatch"
              /\ handlerReturns(q, t, "dispatched")
    /\ lastEvent' = NoEvent
    /\ UNCHANGED <<processedEvents, chatWatermarks, dedupCleanupTimer, nextEvent, expired, awaiting>>
    /\ UNCHANGED <<batchVars, otherVars>>

NextGateway ==
    \/ ReceiveEvent
    \/ HandlerSettles
    \/ StopGateway
    \/ StartGateway

NextLedger ==
    \/ ReceiveUntimed
    \/ HandlerSettles
    \/ SweepFires
    \/ StopGateway
    \/ StartGateway
    \/ HourPasses

\* ------------------------------------------------------------------------
\* Connection supervisor (core/gateway.ts, startGateway / startWithReconnect)
\* ------------------------------------------------------------------------
\* pc follows one startGateway call:
\*   idle -> probe -> connecting -> connected | sleeping -> ... and ends in
\*   returned (resolved), failed (attempts exhausted), aborted (abort seen
\*   before the loop) or unconfigured (no feishu config).
\* The awaited operations (probeConnection, wsClient.start, sleep, the
\* one-second interval) are steps of their own; the abort signal, stopGateway
\* and a drop of the connection can happen between any two of them.
Terminal == {"returned", "failed", "aborted", "unconfigured"}

\* the supervisor as the other specifications assume it: connected, running
InitConnected ==
    /\ pc = "connected"
    /\ shouldStop = FALSE
    /\ reconnectAttempts = 0
    /\ isReconnecting = FALSE
    /\ batchProcessor = "live"
    /\ aborted = FALSE
    /\ listening = TRUE
    /\ linkUp = TRUE
    /\ delay = 0
    /\ prevDelay = 0
    /\ failuresInRow = 0
    /\ attemptsStarted = 1

\* the module state at load, before startGateway is called
InitSupervisor ==
    /\ pc = "idle"
    /\ shouldStop = FALSE
    /\ reconnectAttempts = 0
    /\ isReconnecting = FALSE
    /\ batchProcessor = "none"
    /\ aborted = FALSE
    /\ listening = FALSE
    /\ linkUp = FALSE
    /\ delay = 0
    /\ prevDelay = 0
    /\ failuresInRow = 0
    /\ attemptsStarted = 0

RECURSIVE Pow2(_)
Pow2(n) == IF n = 0 THEN 1 ELSE 2 * Pow2(n - 1)

\* faulty variant: the delay is not capped
calculateBackoffDelay_Uncapped(attempt) ==
    RECONNECT_BASE_MS * Pow2(attempt)

calculateBackoffDelay(attempt) ==
    Min(RECONNECT_BASE_MS * Pow2(attempt), RECONNECT_MAX_MS)

\* faulty variant: the handler disposes the processor but does not stop the loop
onAbort_NoStop(processor) ==
    [shouldStop |-> shouldStop,
     batchProcessor |-> IF processor = "live" THEN "disposed" ELSE processor]

\* the abort handler of startGateway, run with the processor it finds
onAbort(processor) ==
    [shouldStop |-> TRUE,
     batchProcessor |-> IF processor = "live" THEN "disposed" ELSE processor]

\* the test of the while loop of startWithReconnect
loopTest(stop, attempts) == ~stop /\ attempts < RECONNECT_MAX_ATTEMPTS

\* faulty variant: one more failure is tolerated before giving up
afterFailure_OneMore(stop, attempts) ==
    LET n == attempts + 1
    IN  IF stop THEN [pc |-> "returned", attempts |-> n, delay |-> 0]
        ELSE IF n > RECONNECT_MAX_ATTEMPTS THEN [pc |-> "failed", attempts |-> n, delay |-> 0]
        ELSE [pc |-> "sleeping", attempts |-> n, delay |-> calculateBackoffDelay(n)]

\* the catch branch of startWithReconnect
afterFailure(stop, attempts) ==
    LET n == attempts + 1
    IN  IF stop THEN [pc |-> "returned", attempts |-> n, delay |-> 0]
        ELSE IF n >= RECONNECT_MAX_ATTEMPTS THEN [pc |-> "failed", attempts |-> n, delay |-> 0]
        ELSE [pc |-> "sleeping", attempts |-> n, delay |-> calculateBackoffDelay(n)]

\* startGateway is called: the config is checked and the state reset
CallStartGateway ==
    /\ pc = "idle"
    /\ \E configured \in BOOLEAN :
          IF configured
          THEN /\ pc' = "probe"
               /\ shouldStop' = FALSE
               /\ isReconnecting' = FALSE
               /\ reconnectAttempts' = 0
          ELSE /\ pc' = "unconfigured"
               /\ UNCHANGED <<shouldStop, isReconnecting, reconnectAttempts>>
    /\ UNCHANGED <<batchProcessor, aborted, listening, linkUp, delay, prevDelay, failuresInRow,
                   attemptsStarted>>
    /\ UNCHANGED <<batchVars, queueVars, gatewayVars>>
    /\ UNCHANGED registryVars

\* probeConnection settles (either way): the batch processor is created, the
\* cleanup interval started, the abort signal looked at, and the loop entered
ProbeSettles ==
    /\ pc = "probe"
    /\ dedupCleanupTimer' = IF dedupCleanupTimer = NoTimer THEN DEDUP_CLEANUP_MS
                            ELSE dedupCleanupTimer
    /\ IF aborted
       THEN /\ shouldStop' = onAbort("live").shouldStop
            /\ batchProcessor' = onAbort("live").batchProcessor
            /\ pc' = "aborted"
            /\ UNCHANGED <<listening, attemptsStarted>>
       ELSE /\ batchProcessor' = "live"
            /\ listening' = TRUE
            /\ UNCHANGED shouldStop
            /\ IF loopTest(shouldStop, reconnectAttempts)
               THEN pc' = "connecting" /\ attemptsStarted' = attemptsStarted + 1
               ELSE pc' = "returned" /\ UNCHANGED attemptsStarted
    /\ UNCHANGED <<reconnectAttempts, isReconnecting, aborted, linkUp, delay, prevDelay,
                   failuresInRow>>
    /\ UNCHANGED <<processedEvents, chatWatermarks, nextEvent, lastEvent, expired, awaiting, handling>>
    /\ UNCHANGED <<batchVars, queueVars>>
    /\ UNCHANGED registryVars

\* wsClient.start resolves
ConnectSucceeds ==
    /\ pc = "connecting"
    /\ pc' = "connected"
    /\ reconnectAttempts' = 0
    /\ isReconnecting' = FALSE
    /\ linkUp' = TRUE
    /\ failuresInRow' = 0
    /\ delay' = 0
    /\ prevDelay' = 0
    /\ UNCHANGED <<shouldStop, batchProcessor, aborted, listening, attemptsStarted>>
    /\ UNCHANGED <<batchVars, queueVars, gatewayVars>>
    /\ UNCHANGED registryVars

\* wsClient.start (or createWsClient) throws or rejects
ConnectFails ==
    /\ pc = "connecting"
    /\ LET r == afterFailure(shouldStop, reconnectAttempts)
       IN  /\ pc' = r.pc
           /\ reconnectAttempts' = r.attempts
           /\ delay' = IF r.pc = "sleeping" THEN r.delay ELSE delay
           /\ prevDelay' = IF r.pc = "sleeping" THEN delay ELSE prevDelay
    /\ isReconnecting' = TRUE
    /\ failuresInRow' = failuresInRow + 1
    /\ UNCHANGED <<shouldStop, batchProcessor, aborted, listening, linkUp, attemptsStarted>>
    /\ UNCHANGED <<batchVars, queueVars, gatewayVars>>
    /\ UNCHANGED registryVars

\* the backoff sleep ends and the loop test is made
SleepEnds ==
    /\ pc = "sleeping"
    /\ IF loopTest(shouldStop, reconnectAttempts)
       THEN pc' = "connecting" /\ attemptsStarted' = attemptsStarted + 1
       ELSE pc' = "returned" /\ UNCHANGED attemptsStarted
    /\ UNCHANGED <<shouldStop, reconnectAttempts, isReconnecting, batchProcessor, aborted,
                   listening, linkUp, delay, prevDelay, failuresInRow>>
    /\ UNCHANGED <<batchVars, queueVars, gatewayVars>>
    /\ UNCHANGED registryVars

\* the one-second interval of the connected wait finds shouldStop set
IntervalSeesStop ==
    /\ pc = "connected"
    /\ shouldStop
    /\ pc' = "returned"
    /\ UNCHANGED <<shouldStop, reconnectAttempts, isReconnecting, batchProcessor, aborted,
                   listening, linkUp, delay, prevDelay, failuresInRow, attemptsStarted>>
    /\ UNCHANGED <<batchVars, queueVars, gatewayVars>>
    /\ UNCHANGED registryVars

\* the abort signal of a configured startGateway call fires; its listener, if
\* registered, runs onAbort
Abort ==
    /\ ~aborted
    /\ pc \notin {"idle", "unconfigured"}
    /\ aborted' = TRUE
    /\ IF listening
       THEN /\ shouldStop' = onAbort(batchProcessor).shouldStop
            /\ batchProcessor' = onAbort(batchProcessor).batchProcessor
            /\ disposeProcessor(batchProcessor)
       ELSE UNCHANGED <<shouldStop, batchProcessor, chatStates, detached>>
    /\ UNCHANGED <<pc, reconnectAttempts, isReconnecting, listening, linkUp, delay, prevDelay,
                   failuresInRow, attemptsStarted>>
    /\ UNCHANGED <<conversations, budget, direct, arrivals, awaited, onFlushRejects, autoReplyConfig,
                   sinceConnected, nextMsgId, flushed, accounted, dispatching, rejectedUpTo,
                   lastFlush, everTriggered, disposedIdle, cancelled, sinceDisposed>>
    /\ UNCHANGED <<queueVars, gatewayVars>>
    /\ UNCHANGED registryVars

\* the WebSocket connection is lost while the supervisor waits
ConnectionDrops ==
    /\ pc = "connected"
    /\ linkUp
    /\ linkUp' = FALSE
    /\ UNCHANGED <<pc, shouldStop, reconnectAttempts, isReconnecting, batchProcessor, aborted,
                   listening, delay, prevDelay, failuresInRow, attemptsStarted>>
    /\ UNCHANGED <<batchVars, queueVars, gatewayVars>>
    /\ UNCHANGED registryVars

NextSupervisor ==
    \/ CallStartGateway
    \/ ProbeSettles
    \/ ConnectSucceeds
    \/ ConnectFails
    \/ SleepEnds
    \/ IntervalSeesStop
    \/ Abort
    \/ ConnectionDrops
    \/ StopGateway

\* ------------------------------------------------------------------------
\* Trigger registry (core/trigger/registry.ts)
\* ------------------------------------------------------------------------
\* A trigger is its id, its priority and the number of the register call
\* that added it (the object's identity: an id can be registered twice).
\* What a trigger's check reports for a message is an input of check():
\* the set of registered triggers that report triggered for it.
TriggerIds == {"mention", "custom"}
Priorities == {0, 50, 100}

Null == [triggered |-> FALSE, triggerId |-> "", priority |-> 0, reg |-> 0]
NoCheck == [hit |-> {}, evaluated |-> <<>>, result |-> Null, called |-> FALSE]

InitRegistry ==
    /\ triggers = <<>>
    /\ nextReg = 1
    /\ lastCheck = NoCheck

\* Array.prototype.findIndex over the indexes in S, 0 for -1
findIndex(S) == IF S = {} THEN 0 ELSE CHOOSE i \in S : \A j \in S : i <= j

\* Array.prototype.splice(index, 0, t) and splice(index, 1)
spliceIn(ts, index, t) == SubSeq(ts, 1, index - 1) \o <<t>> \o SubSeq(ts, index, Len(ts))
spliceOut(ts, index) == SubSeq(ts, 1, index - 1) \o SubSeq(ts, index + 1, Len(ts))

\* faulty variant: the new trigger goes before the registered ones of its priority
register_BeforeEqual(ts, trigger) ==
    LET index == findIndex({i \in DOMAIN ts : ts[i].priority <= trigger.priority})
    IN  IF index = 0 THEN Append(ts, trigger) ELSE spliceIn(ts, index, trigger)

register(ts, trigger) ==
    LET index == findIndex({i \in DOMAIN ts : ts[i].priority < trigger.priority})
    IN  IF index = 0 THEN Append(ts, trigger) ELSE spliceIn(ts, index, trigger)

unregister(ts, triggerId) ==
    LET index == findIndex({i \in DOMAIN ts : ts[i].id = triggerId})
    IN  IF index = 0 THEN ts ELSE spliceOut(ts, index)

\* the result a trigger's check returns when it reports triggered
resultOf(trigger) ==
    [triggered |-> TRUE, triggerId |-> trigger.id, priority |-> trigger.priority,
     reg |-> trigger.reg]

\* the for loop of check(), from index i on: the triggers evaluated so far and
\* the result returned
RECURSIVE checkFrom(_, _, _, _)
checkFrom(ts, i, hit, evaluated) ==
    IF i > Len(ts) THEN [evaluated |-> evaluated, result |-> Null]
    ELSE IF ts[i].reg \in hit
         THEN [evaluated |-> Append(evaluated, ts[i].reg), result |-> resultOf(ts[i])]
         ELSE checkFrom(ts, i + 1, hit, Append(evaluated, ts[i].reg))

check(ts, hit) == checkFrom(ts, 1, hit, <<>>)

Register ==
    /\ nextReg <= MaxRegistrations
    /\ \E id \in TriggerIds, p \in Priorities :
          triggers' = register(triggers, [id |-> id, priority |-> p, reg |-> nextReg])
    /\ nextReg' = nextReg + 1
    /\ lastCheck' = NoCheck
    /\ UNCHANGED <<batchVars, queueVars, gatewayVars, supervisorVars>>

Unregister ==
    /\ \E id \in TriggerIds : triggers' = unregister(triggers, id)
    /\ lastCheck' = NoCheck
    /\ UNCHANGED nextReg
    /\ UNCHANGED <<batchVars, queueVars, gatewayVars, supervisorVars>>

\* check(message, context) for a message that the triggers in hit match
Check ==
    /\ \E hit \in SUBSET {triggers[i].reg : i \in DOMAIN triggers} :
          LET r == check(triggers, hit)
          IN  lastCheck' = [hit |-> hit, evaluated |-> r.evaluated, result |-> r.result,
                            called |-> TRUE]
    /\ UNCHANGED <<triggers, nextReg>>
    /\ UNCHANGED <<batchVars, queueVars, gatewayVars, supervisorVars>>

NextRegistry ==
    \/ Register
    \/ Unregister
    \/ Check

\* the batch processor explored over every scenario
Init == InitBatchIn(Scenarios) /\ InitQueue /\ InitGateway /\ InitConnected /\ InitRegistry

\* the gateway explored with a batch processor that stays as constructed
InitIdle == InitBatchIn({[chats |-> Chats, autoReply |-> AutoReplyOff, msgs |-> 0,
                          direct |-> FALSE, arrivals |-> FALSE,
                           awaited |-> FALSE, rejects |-> FALSE]})
            /\ InitQueue /\ InitGateway /\ InitConnected /\ InitRegistry

SpecRegistry == InitIdle /\ [][NextRegistry]_vars

\* the process before startGateway is called: nothing started, nothing kept
InitLoaded == InitBatchIn({[chats |-> Chats, autoReply |-> AutoReplyOff, msgs |-> 0,
                            direct |-> FALSE, arrivals |-> FALSE,
                           awaited |-> FALSE, rejects |-> FALSE]})
              /\ InitQueue
              /\ processedEvents = <<>>
              /\ chatWatermarks = <<>>
              /\ dedupCleanupTimer = NoTimer
              /\ nextEvent = 1
              /\ lastEvent = NoEvent
              /\ expired = {}
              /\ awaiting = {}
              /\ handling = <<>>
              /\ InitSupervisor
              /\ InitRegistry

SpecSupervisor == InitLoaded /\ [][NextSupervisor]_vars

\* every awaited operation of the supervisor settles, and the interval runs
SpecSupervisorFair ==
    /\ SpecSupervisor
    /\ WF_vars(ProbeSettles)
    /\ WF_vars(ConnectSucceeds \/ ConnectFails)
    /\ WF_vars(SleepEnds)
    /\ WF_vars(IntervalSeesStop)

SpecBatch == Init /\ [][NextBatch]_vars

\* one chat with a short auto-reply window, driven by the handler only
InitQuick == InitBatchIn({[chats |-> {"oc_a"}, autoReply |-> AutoReplyQuick, msgs |-> MaxMsgsQuick,
                           direct |-> FALSE, arrivals |-> TRUE,
                           awaited |-> FALSE, rejects |-> FALSE]})
             /\ InitQueue /\ InitGateway /\ InitConnected /\ InitRegistry

NextAutoReply ==
    \/ ProcessMessage
    \/ DebounceTimerFires
    \/ MaxWaitTimerFires
    \/ AutoReplyTimerFires
    \/ Dispose
    \/ Tick

SpecAutoReply == InitQuick /\ [][NextAutoReply]_vars

\* one chat with a short auto-reply window, the public methods called directly
InitDrain == InitBatchIn({[chats |-> {"oc_a"}, autoReply |-> AutoReplyQuick, msgs |-> MaxMsgsQuick,
                           direct |-> TRUE, arrivals |-> FALSE,
                           awaited |-> FALSE, rejects |-> FALSE]})
             /\ InitQueue /\ InitGateway /\ InitConnected /\ InitRegistry

SpecDrain == InitDrain /\ [][NextBatch]_vars

\* the timers fire when they are due and time goes on
SpecDrainFair ==
    /\ SpecDrain
    /\ WF_vars(DebounceTimerFires)
    /\ WF_vars(MaxWaitTimerFires)
    /\ WF_vars(AutoReplyTimerFires)
    /\ WF_vars(Tick)

\* one chat whose onFlush calls are followed until they settle
InitDispatch == InitBatchIn({[chats |-> {"oc_a"}, autoReply |-> AutoReplyQuick, msgs |-> MaxMsgsQuick,
                              direct |-> FALSE, arrivals |-> FALSE, awaited |-> TRUE,
                              rejects |-> FALSE]})
                /\ InitQueue /\ InitGateway /\ InitConnected /\ InitRegistry

NextDispatch ==
    \/ ProcessMessage
    \/ DebounceTimerFires
    \/ MaxWaitTimerFires
    \/ AutoReplyTimerFires
    \/ OnFlushSettles
    \/ Dispose
    \/ Tick

SpecDispatch == InitDispatch /\ [][NextDispatch]_vars

\* shutdown with tasks pending: the events arrive while the gateway runs, the
\* handlers and the timers of the batch processor go on after stopGateway or
\* the abort signal
NextShutdown ==
    \/ MessageArrives
    \/ SenderLookupSettles
    \/ DispatchSettles
    \/ DebounceTimerFires
    \/ MaxWaitTimerFires
    \/ Tick
    \/ StopGateway
    \/ Abort

\* one group chat, as many messages as tasks
InitShutdown == InitBatchIn({[chats |-> {"oc_a"}, autoReply |-> AutoReplyOff, msgs |-> MaxTasks,
                              direct |-> FALSE, arrivals |-> FALSE, awaited |-> FALSE,
                              rejects |-> FALSE]})
                /\ InitQueue /\ InitGateway /\ InitConnected /\ InitRegistry

SpecShutdown == InitShutdown /\ [][NextShutdown]_vars

SpecQueue == InitIdle /\ [][NextQueue]_vars

\* every handler a worker awaits eventually settles
SpecQueueFair == SpecQueue /\ WF_vars(HandlerDone)

SpecGateway == InitIdle /\ [][NextGateway]_vars

SpecLedger == InitIdle /\ [][NextLedger]_vars

\* tasks whose handler was invoked and has not settled
RunningTasks == {queueHeap[q].running : q \in DOMAIN queueHeap} \ {NoTask}

TypeOK == nextMsgId \in 1..(budget + 1)

\* ------------------------------------------------------------------------
\* Properties of the per-chat queue
\* ------------------------------------------------------------------------
StartedTasks == {started[i] : i \in 1..Len(started)}

\* C1: the tasks enqueued under one chat id start in exactly their enqueue
\* order (none is overtaken by a later one), and a task starts only after the
\* previous task of that chat has settled, so at most one task of a chat is
\* in flight.
C1_SerialFifo ==
    /\ \A i, j \in 1..Len(started) :
          (i < j /\ taskChat[started[i]] = taskChat[started[j]]) => started[i] < started[j]
    /\ \A t \in StartedTasks : \A u \in 1..(t - 1) :
          taskChat[u] = taskChat[t] => u \in StartedTasks
    /\ \A t, u \in RunningTasks : taskChat[t] = taskChat[u] => t = u

\* a task that was enqueued and not started waits in the queue object of a
\* worker that is awaiting a handler
NoTaskLost ==
    \A t \in 1..(nextTask - 1) :
        \/ t \in StartedTasks
        \/ \E q \in DOMAIN queueHeap :
              /\ \E i \in 1..Len(queueHeap[q].messages) : queueHeap[q].messages[i] = t
              /\ queueHeap[q].processing
              /\ queueHeap[q].running # NoTask

\* C14: a task that throws or rejects does not stop the worker: no enqueued
\* task is ever lost, and when every awaited handler eventually settles every
\* enqueued task is eventually started (a started task stays started, so it
\* is enough that again and again all tasks enqueued so far have started).
C14_EveryTaskStarts ==
    /\ []NoTaskLost
    /\ []<>(StartedTasks = 1..(nextTask - 1))

\* a task failed, and a task enqueued behind it for the same chat was started
C14_Witness ==
    \E t \in failedTasks : \E u \in StartedTasks :
        /\ u > t
        /\ taskChat[u] = taskChat[t]
        /\ \E i, j \in 1..Len(started) : i < j /\ started[i] = t /\ started[j] = u
        /\ chatQueues = <<>>

\* C15: a task that was enqueued and has not started is waiting behind a
\* running task of its own chat, enqueued before it; a pending task of
\* another chat never delays it.
C15_OnlyOwnChatDelays ==
    \A t \in 1..(nextTask - 1) :
        t \notin StartedTasks =>
            \E q \in DOMAIN queueHeap :
                /\ \E i \in 1..Len(queueHeap[q].messages) : queueHeap[q].messages[i] = t
                /\ queueHeap[q].running # NoTask
                /\ queueHeap[q].running < t
                /\ taskChat[queueHeap[q].running] = taskChat[t]

\* a task of one chat was started while an earlier task of another chat was
\* running, and both are still running
C15_Witness ==
    \E t, u \in RunningTasks :
        /\ t < u
        /\ taskChat[t] # taskChat[u]
        /\ \A v \in StartedTasks : v \in {t, u}

\* C16: the queue map holds an entry for a chat only while a worker of that
\* chat is running a task, so a drained queue leaves no entry behind.
C16_NoIdleEntry ==
    \A c \in DOMAIN chatQueues :
        /\ chatQueues[c] \in DOMAIN queueHeap
        /\ queueHeap[chatQueues[c]].chatId = c
        /\ queueHeap[chatQueues[c]].processing
        /\ queueHeap[chatQueues[c]].running # NoTask

\* two tasks of one chat were run one after the other by one worker, which
\* drained its queue and removed the entry
C16_Witness ==
    /\ chatQueues = <<>>
    /\ queueHeap = <<>>
    /\ Len(started) = 2
    /\ nextTask = 3
    /\ taskChat[1] = taskChat[2]

\* ------------------------------------------------------------------------
\* Properties of the batch processor
\* ------------------------------------------------------------------------
MappedStates == {chatStates[c] : c \in DOMAIN chatStates}

Delivered == lastFlush # NoFlush

\* the positions of the trigger-matching messages of a buffer
TriggerPositions(buffer) == {i \in 1..Len(buffer) : triggerCheck(buffer[i])}

\* C2 as stated: onFlush is never called for a conversation none of whose
\* messages matched a trigger.
C2_NeverFlushed == \A c \in Chats : c \notin everTriggered => flushed[c] = 0

\* C2: a conversation none of whose messages matched a trigger never gets a
\* trigger-path onFlush call (isAutoReply false), and with auto-reply disabled
\* onFlush is never called for it at all.
C2_NoTriggerFlush ==
    /\ ~autoReplyConfig.enabled => \A c \in Chats : c \notin everTriggered => flushed[c] = 0
    /\ (Delivered /\ lastFlush.chatId \notin everTriggered) => lastFlush.isAutoReply

\* an untriggered conversation past the startup window, idle for longer than
\* the debounce, with nothing armed and never flushed
C2_Witness ==
    /\ ~autoReplyConfig.enabled
    /\ sinceConnected = STARTUP_WINDOW_MS
    /\ \E s \in MappedStates :
          /\ s.chatId \notin everTriggered
          /\ Len(s.buffer) >= 2
          /\ s.mode = "realtime"
          /\ s.lastMessageAge > REALTIME_DEBOUNCE_MS
          /\ ~Pending(s)
          /\ flushed[s.chatId] = 0

\* C3: a triggered batch held by the processor is never older than
\* MAX_BATCH_WAIT_MS counted from its first trigger: its max-wait timer runs
\* from the first trigger and is not restarted by later triggers, and every
\* trigger-path payload is delivered at most MAX_BATCH_WAIT_MS after the first
\* trigger of its batch.
C3_MaxWaitFromFirstTrigger ==
    /\ \A s \in MappedStates : s.hasTrigger =>
          /\ s.firstTriggerAge # NoTime
          /\ s.firstTriggerAge <= MAX_BATCH_WAIT_MS
          /\ s.maxWaitTimer = MAX_BATCH_WAIT_MS - s.firstTriggerAge
    /\ (Delivered /\ ~lastFlush.isAutoReply) =>
          (lastFlush.waitedMs # NoTime /\ lastFlush.waitedMs <= MAX_BATCH_WAIT_MS)

\* the max-wait timer delivers a batch with several triggers whose debounce
\* timer was still running
C3_Witness ==
    /\ Delivered
    /\ lastFlush.via = "maxWait"
    /\ lastFlush.mode = "realtime"
    /\ lastFlush.waitedMs = MAX_BATCH_WAIT_MS
    /\ lastFlush.idleMs < REALTIME_DEBOUNCE_MS
    /\ Cardinality(TriggerPositions(lastFlush.messages)) >= 2

C5_AutoReplyDeadline ==
    /\ \A s \in MappedStates :
          (autoReplyConfig.enabled /\ ~s.hasTrigger
             /\ Len(s.buffer) >= minMessagesOf(autoReplyConfig)) =>
          \/ s.firstMessageAge <= minTimeMsOf(autoReplyConfig)
          \/ s.lastMessageAge <= debounceMsOf(autoReplyConfig)
    /\ (Delivered /\ lastFlush.isAutoReply) =>
          /\ lastFlush.elapsedMs >= minTimeMsOf(autoReplyConfig)
          /\ Len(lastFlush.messages) >= minMessagesOf(autoReplyConfig)

\* C8: once dispose() has been called, and until the next message is
\* processed, the processor holds no state and no timer of any state object
\* is pending, so onFlush is not called however much time passes.
C8_DisposeSilences ==
    disposedIdle => (LiveStates = {} /\ chatStates = <<>> /\ ~Delivered)

\* dispose() cleared the timers of a triggered batch, more time than the
\* longest of them had left has passed since, and nothing was ever flushed
C8_Witness ==
    /\ disposedIdle
    /\ cancelled > REALTIME_DEBOUNCE_MS
    /\ everTriggered # {}
    /\ sinceDisposed > cancelled
    /\ \A c \in Chats : flushed[c] = 0

\* C9 (state part): a payload carries only messages of the conversation it
\* is delivered for, in arrival order, and a trigger-path payload is caused
\* by a trigger of that same conversation.
C9_OwnMessagesOnly ==
    /\ \A s \in LiveStates : \A i \in 1..Len(s.buffer) : s.buffer[i].chatId = s.chatId
    /\ \A c \in DOMAIN chatStates : chatStates[c].chatId = c
    /\ Delivered =>
          /\ \A i \in 1..Len(lastFlush.messages) : lastFlush.messages[i].chatId = lastFlush.chatId
          /\ \A i, j \in 1..Len(lastFlush.messages) :
                i < j => lastFlush.messages[i].messageId < lastFlush.messages[j].messageId
          /\ ~lastFlush.isAutoReply =>
                (lastFlush.triggerMessage.chatId = lastFlush.chatId
                    /\ lastFlush.chatId \in everTriggered)

\* the conversations a step acts on: the one whose message is processed, or
\* the one whose batch is delivered
Touched ==
    {c \in Chats : /\ nextMsgId' # nextMsgId
                   /\ c \in DOMAIN chatStates'
                   /\ Len(chatStates'[c].buffer) > 0
                   /\ chatStates'[c].buffer[Len(chatStates'[c].buffer)].messageId = nextMsgId}
    \cup {c \in Chats : flushed'[c] # flushed[c]}

\* a step leaves conversation c as it was
Untouched(c) ==
    /\ flushed'[c] = flushed[c]
    /\ (c \in DOMAIN chatStates) = (c \in DOMAIN chatStates')
    /\ c \in DOMAIN chatStates => chatStates'[c] = chatStates[c]

\* C9: processing a message of one conversation, or delivering its batch,
\* changes neither the buffer, the trigger flag nor the timers of any other
\* conversation and causes no flush of another conversation; payloads carry
\* only their own conversation's messages.
C9_Isolation ==
    /\ []C9_OwnMessagesOnly
    /\ [][\A c \in Touched : \A d \in Chats \ {c} : Untouched(d)]_vars

\* one triggered and one untriggered conversation, both at rest: exactly one
\* flush happened, and the untriggered conversation still holds its message
C9_Witness ==
    /\ \E c, d \in Chats :
          /\ c # d
          /\ c \in everTriggered /\ d \notin everTriggered
          /\ flushed[c] = 1 /\ flushed[d] = 0
          /\ d \in DOMAIN chatStates /\ Len(chatStates[d].buffer) > 0
    /\ \A s \in LiveStates : ~Pending(s)
    /\ nextMsgId > budget

\* C10: the trigger message of a triggered batch is the last trigger-matching
\* message of its buffer, so the triggerMessage of a trigger-path payload is
\* the most recently received trigger-matching message of the delivered
\* batch and one of payload.messages.
C10_LatestTrigger ==
    /\ \A s \in MappedStates : s.hasTrigger =>
          /\ TriggerPositions(s.buffer) # {}
          /\ s.triggerMessage =
                s.buffer[CHOOSE i \in TriggerPositions(s.buffer) :
                            \A j \in TriggerPositions(s.buffer) : j <= i]
    /\ (Delivered /\ ~lastFlush.isAutoReply) =>
          /\ TriggerPositions(lastFlush.messages) # {}
          /\ lastFlush.triggerMessage =
                lastFlush.messages[CHOOSE i \in TriggerPositions(lastFlush.messages) :
                                      \A j \in TriggerPositions(lastFlush.messages) : j <= i]

\* a payload with two triggers and a later untriggered message: the trigger
\* message is the second trigger, neither the first nor the last message
C10_Witness ==
    /\ Delivered
    /\ ~lastFlush.isAutoReply
    /\ Cardinality(TriggerPositions(lastFlush.messages)) >= 2
    /\ ~triggerCheck(lastFlush.messages[Len(lastFlush.messages)])
    /\ lastFlush.triggerMessage.messageId > lastFlush.messages[1].messageId

\* C11: in every reachable state of every conversation batch, hasTrigger
\* implies that triggerMessage is set.
C11_TriggerMessageSet ==
    \A s \in LiveStates : s.hasTrigger => s.triggerMessage # NoMsg

\* a batch that was flushed and reset before is triggered again
C11_Witness ==
    \E s \in MappedStates :
        /\ s.hasTrigger
        /\ s.triggerMessage # NoMsg
        /\ flushed[s.chatId] >= 1

\* the state of chat c is as a flush leaves it
FlushedClean(c) ==
    /\ c \in DOMAIN chatStates
    /\ chatStates[c].buffer = <<>>
    /\ ~chatStates[c].hasTrigger
    /\ chatStates[c].triggerMessage = NoMsg
    /\ ~Pending(chatStates[c])
    /\ chatStates[c].mode = "realtime"

\* C12: when onFlush is invoked, on the trigger path and on the auto-reply
\* path, the batch has an empty buffer, no trigger flag, no trigger message,
\* no debounce, max-wait or auto-reply timer and mode realtime, and the
\* payload is the buffer and trigger message the batch held before the flush.
C12_ClearedBeforeHandOff ==
    /\ [](Delivered => (FlushedClean(lastFlush.chatId) /\ Len(lastFlush.messages) > 0))
    /\ [][\A c \in Chats : flushed'[c] # flushed[c] =>
            /\ c \in DOMAIN chatStates
            /\ lastFlush'.chatId = c
            /\ lastFlush'.messages = chatStates[c].buffer
            /\ lastFlush'.triggerMessage =
                  IF lastFlush'.isAutoReply THEN NoMsg ELSE chatStates[c].triggerMessage]_vars

\* the max-wait timer delivers a batch of a startup-mode conversation while
\* its startup timer is pending, and leaves the conversation clean
C12_Witness ==
    /\ Delivered
    /\ lastFlush.via = "maxWait"
    /\ lastFlush.mode = "startup"
    /\ FlushedClean(lastFlush.chatId)

Received == lastEvent # NoEvent

\* the event just handled names its chat and carries a create_time
Timed == Received /\ lastEvent.chatId # "" /\ lastEvent.ageMs # NoTime

\* its create_time is not after the watermark its chat had when it arrived
\* (an age that is not below the watermark's age)
AtOrBelowWatermark == lastEvent.watermark # NoTime /\ lastEvent.ageMs >= lastEvent.watermark

WatermarkNow ==
    IF lastEvent.chatId \in DOMAIN chatWatermarks THEN chatWatermarks[lastEvent.chatId]
    ELSE NoTime

\* an event at or below the watermark is dropped in the handler: nothing is
\* enqueued for it and the watermark stays
C6_StaleDropped ==
    (Timed /\ AtOrBelowWatermark) =>
        /\ lastEvent.task = NoTask
        /\ lastEvent.verdict \in {"duplicate", "stale"}
        /\ WatermarkNow = lastEvent.watermark

\* C6 as stated: an event at or below the watermark is dropped, and every
\* event above the watermark advances the watermark and is enqueued.
C6_AsStated ==
    /\ C6_StaleDropped
    /\ (Timed /\ ~AtOrBelowWatermark) =>
          (lastEvent.task # NoTask /\ WatermarkNow = lastEvent.ageMs)

\* C6: an event at or below the watermark of its chat is dropped in the
\* handler; an event above the watermark advances the watermark to its
\* create_time and is enqueued when its dedup key is fresh and it is not
\* older than MAX_MESSAGE_AGE_MS, and is otherwise dropped with the watermark
\* unchanged.
C6_Watermark ==
    /\ C6_StaleDropped
    /\ (Timed /\ ~AtOrBelowWatermark) =>
          IF lastEvent.seenAge = NoTime /\ lastEvent.ageMs <= MAX_MESSAGE_AGE_MS
          THEN /\ lastEvent.task # NoTask
               /\ WatermarkNow = lastEvent.ageMs
               /\ lastEvent.task \in 1..Len(taskChat)
               /\ taskChat[lastEvent.task] = lastEvent.chatId
          ELSE /\ lastEvent.task = NoTask
               /\ WatermarkNow = lastEvent.watermark

\* a chat with a watermark receives a newer message, which is enqueued and
\* becomes the watermark
C6_Witness ==
    /\ Timed
    /\ lastEvent.watermark # NoTime
    /\ lastEvent.ageMs < lastEvent.watermark
    /\ lastEvent.verdict = "enqueued"
    /\ WatermarkNow = lastEvent.ageMs

\* the verdict of isDuplicateEvent and the entry it leaves: an id is a
\* duplicate exactly when the ledger holds it, a fresh id is recorded with
\* the current time, a duplicate keeps its recorded time
C7_LedgerEntry ==
    (Received /\ lastEvent.eventId # "") =>
        /\ (lastEvent.verdict = "duplicate") = (lastEvent.seenAge # NoTime)
        /\ lastEvent.eventId \in DOMAIN processedEvents
        /\ processedEvents[lastEvent.eventId] =
              IF lastEvent.seenAge # NoTime THEN lastEvent.seenAge ELSE 0

\* C7: isDuplicateEvent answers false for an id the ledger does not hold and
\* records it, answers true while the ledger holds it and then leaves the
\* whole ledger unchanged; the cleanup sweep removes exactly the entries older
\* than DEDUP_WINDOW_MS, after which their ids are fresh again.
C7_DedupLedger ==
    /\ []C7_LedgerEntry
    /\ [][(nextEvent' # nextEvent /\ lastEvent'.verdict = "duplicate")
            => processedEvents' = processedEvents]_vars
    /\ [][(dedupCleanupTimer = 0 /\ dedupCleanupTimer' = DEDUP_CLEANUP_MS)
            => /\ DOMAIN processedEvents' =
                    {e \in DOMAIN processedEvents : processedEvents[e] <= DEDUP_WINDOW_MS}
               /\ \A e \in DOMAIN processedEvents' : processedEvents'[e] = processedEvents[e]]_vars

\* an id that was recorded, then swept after its retention, arrives again
\* and is accepted
C7_Witness ==
    /\ Received
    /\ lastEvent.eventId \in expired
    /\ lastEvent.seenAge = NoTime
    /\ lastEvent.verdict = "enqueued"

\* C17: a task is enqueued only by the message handler and only for an
\* event that passed the duplicate check: the ledger did not hold the id of
\* an enqueued event when it arrived and holds it afterwards, and an event
\* whose id the ledger holds gets no task, however often it is delivered.
C17_OneTaskPerRetainedId ==
    /\ nextTask <= nextEvent
    /\ Received =>
          /\ (lastEvent.task # NoTask) = (lastEvent.verdict = "enqueued")
          /\ (lastEvent.task # NoTask) => lastEvent.task = nextTask - 1
          /\ (lastEvent.task # NoTask /\ lastEvent.eventId # "") =>
                /\ lastEvent.seenAge = NoTime
                /\ lastEvent.eventId \in DOMAIN processedEvents
          /\ (lastEvent.eventId # "" /\ lastEvent.seenAge # NoTime) =>
                /\ lastEvent.verdict = "duplicate"
                /\ lastEvent.task = NoTask

\* the same event was delivered three times while the ledger held its id:
\* only the first delivery was enqueued
C17_Witness ==
    /\ Received
    /\ lastEvent.verdict = "duplicate"
    /\ nextEvent = 4
    /\ nextTask = 2
    /\ DOMAIN processedEvents = {lastEvent.eventId}
    /\ expired = {}

\* tasks of events that name their chat and carry a create_time
TimedTasks == {t \in 1..Len(taskTime) : taskTime[t] # NoTime /\ taskChat[t] # "unknown"}

\* C18: the handler advances the watermark in the step that enqueues the
\* event, so of two events of one chat with the same create_time only the
\* first is enqueued: every later task of the chat has a later create_time,
\* whether or not the earlier task has settled.
C18_NoSecondTaskForCreateTime ==
    /\ \A t, u \in TimedTasks :
          (t < u /\ taskChat[t] = taskChat[u]) => taskTime[u] < taskTime[t]
    /\ \A t \in TimedTasks :
          /\ taskChat[t] \in DOMAIN chatWatermarks
          /\ chatWatermarks[taskChat[t]] <= taskTime[t]
    /\ (Timed /\ lastEvent.task # NoTask) => WatermarkNow = lastEvent.ageMs

\* an event with a new id arrives for the chat and create_time of an event
\* whose task is still running, and is dropped as stale
C18_Witness ==
    /\ Timed
    /\ lastEvent.verdict = "stale"
    /\ lastEvent.seenAge = NoTime
    /\ \E t \in RunningTasks \cap TimedTasks :
          /\ taskChat[t] = lastEvent.chatId
          /\ taskTime[t] = lastEvent.ageMs
    /\ nextTask = 2

\* updateWatermark called on the current map stores the later of the
\* previous value and the given create_time and leaves the other chats alone
C19_StoresMax ==
    \A c \in EventChats \ {""} : \A a \in EventAges \ {NoTime} :
        LET after == updateWatermark(chatWatermarks, c, a)
        IN  /\ DOMAIN after = DOMAIN chatWatermarks \cup {c}
            /\ after[c] = IF c \in DOMAIN chatWatermarks THEN Min(chatWatermarks[c], a) ELSE a
            /\ \A d \in DOMAIN chatWatermarks \ {c} : after[d] = chatWatermarks[d]

\* C19: the watermark of a chat never moves back: updateWatermark stores
\* the maximum of the previous value and its argument, and no step of the
\* gateway, stopGateway included, removes or lowers a stored watermark.
C19_WatermarkMonotonic ==
    /\ []C19_StoresMax
    /\ [][\A c \in DOMAIN chatWatermarks :
              /\ c \in DOMAIN chatWatermarks'
              /\ chatWatermarks'[c] <= chatWatermarks[c]]_vars

\* after a newer event advanced the watermark, an older event of the chat
\* arrives with a new id and the watermark stays where it was
C19_Witness ==
    /\ Timed
    /\ lastEvent.seenAge = NoTime
    /\ lastEvent.watermark # NoTime
    /\ lastEvent.ageMs > lastEvent.watermark
    /\ lastEvent.task = NoTask
    /\ WatermarkNow = lastEvent.watermark

\* C20: an explicit trigger takes precedence over auto-reply: a state whose
\* batch is triggered has no auto-reply timer pending, armed or stray; an
\* untriggered batch holds no message that matched a trigger; and a payload
\* handed over as an auto-reply contains no message that matched a trigger.
C20_TriggerOverAutoReply ==
    /\ \A s \in LiveStates :
          s.hasTrigger =>
              /\ s.autoReplyTimer = NoTimer
              /\ \A t \in s.stray : t.kind # "autoReply"
    /\ \A s \in LiveStates :
          ~s.hasTrigger => \A i \in 1..Len(s.buffer) : ~triggerCheck(s.buffer[i])
    /\ (Delivered /\ lastFlush.isAutoReply) =>
          /\ lastFlush.triggerMessage = NoMsg
          /\ \A i \in 1..Len(lastFlush.messages) : ~triggerCheck(lastFlush.messages[i])

\* in realtime mode with auto-reply enabled a message without trigger armed
\* the auto-reply timer, and a trigger message arriving at once cancelled it
\* and armed the debounce and max-wait timers instead
C20_Witness ==
    \E s \in MappedStates :
        /\ autoReplyConfig.enabled
        /\ s.mode = "realtime"
        /\ s.hasTrigger
        /\ Len(s.buffer) = 2
        /\ ~triggerCheck(s.buffer[1])
        /\ triggerCheck(s.buffer[2])
        /\ s.firstMessageAge = 0
        /\ s.lastMessageAge = 0
        /\ s.autoReplyTimer = NoTimer
        /\ s.debounceTimer = REALTIME_DEBOUNCE_MS
        /\ s.maxWaitTimer = MAX_BATCH_WAIT_MS

\* C21: an auto-reply payload holds at least minMessages messages, and at
\* least minTimeMs has passed since the first of them was received.
C21_BothConditions ==
    (arrivals /\ Delivered /\ lastFlush.isAutoReply) =>
        /\ Len(lastFlush.messages) >= minMessagesOf(autoReplyConfig)
        /\ lastFlush.bufferedMs >= minTimeMsOf(autoReplyConfig)

Rejected == pc \in {"failed", "aborted", "unconfigured"}

C25_AsStated ==
    Rejected <=> (failuresInRow = RECONNECT_MAX_ATTEMPTS /\ pc # "returned")

\* C25: the retry loop ends with the error "connection failed after 20
\* attempts" exactly when RECONNECT_MAX_ATTEMPTS attempts in a row failed and
\* the stop flag was not set at the last failure; a successful connection
\* resets the counter to 0, and fewer failures in a row never end the loop
\* with that error. (startGateway also rejects before the loop: without a
\* feishu config, and when the signal is already aborted after the probe.)
C25_FatalAfterMaxAttempts ==
    /\ failuresInRow <= RECONNECT_MAX_ATTEMPTS
    /\ pc = "failed" => failuresInRow = RECONNECT_MAX_ATTEMPTS
    /\ failuresInRow = RECONNECT_MAX_ATTEMPTS => (pc = "failed" \/ (pc = "returned" /\ shouldStop))
    /\ pc = "connected" => (reconnectAttempts = 0 /\ failuresInRow = 0)
    /\ pc \in {"aborted", "unconfigured"} => failuresInRow = 0

\* twenty attempts were started and the twentieth failure was fatal
C25_Witness ==
    /\ pc = "failed"
    /\ ~shouldStop
    /\ attemptsStarted = RECONNECT_MAX_ATTEMPTS
    /\ reconnectAttempts = RECONNECT_MAX_ATTEMPTS

\* ------------------------------------------------------------------------
\* C26: when the abort signal fires during the probe, a connection attempt,
\* a backoff sleep or the connected wait, the stop flag is set and the batch
\* processor disposed (at once, or once the probe has settled), no
\* connection attempt is started after the signal, and startGateway
\* eventually settles.
C26_AbortStops ==
    /\ []((aborted /\ pc # "probe") => (shouldStop /\ batchProcessor = "disposed"))
    /\ [][aborted => attemptsStarted' = attemptsStarted]_vars
    /\ (aborted ~> (pc \in Terminal /\ shouldStop /\ batchProcessor = "disposed"))

\* the signal fired after two failed attempts, and startGateway has resolved
C26_Witness ==
    /\ aborted
    /\ pc = "returned"
    /\ failuresInRow = 2
    /\ attemptsStarted = 2
    /\ batchProcessor = "disposed"
    /\ dedupCleanupTimer # NoTimer

\* ------------------------------------------------------------------------
\* C27: after a successful connection the supervisor waits until the stop
\* flag is set or the connection drops; when the connection drops and no
\* stop was asked for, it leaves the connected wait (and the loop makes the
\* next attempt).
C27_ReconnectsAfterDrop ==
    (pc = "connected" /\ ~linkUp /\ ~shouldStop) ~> (pc # "connected" \/ shouldStop)

\* ------------------------------------------------------------------------
\* C28: a shutdown of the supervisor (stopGateway, or the abort signal)
\* leaves no batch state and no armed batch timer, and leaves the dedup
\* ledger, the watermark map and the serial queue map empty.
C28_ShutdownClearsAll ==
    [][(~shouldStop /\ shouldStop') =>
          /\ chatStates' = <<>>
          /\ \A s \in detached' \ detached : s.debounceTimer = NoTimer /\ s.maxWaitTimer = NoTimer
                                               /\ s.autoReplyTimer = NoTimer
          /\ processedEvents' = <<>>
          /\ chatWatermarks' = <<>>
          /\ chatQueues' = <<>>]_vars

\* ------------------------------------------------------------------------
\* C29: the message handler of the transport returns right after enqueueing:
\* no call of it is ever waiting for a queued task, whether that task is
\* running, still queued behind other tasks of its chat, or never settles.
UnsettledTasks ==
    UNION {{queueHeap[q].running} \cup {queueHeap[q].messages[i] : i \in DOMAIN queueHeap[q].messages}
           : q \in DOMAIN queueHeap} \ {NoTask}

C30_PriorityOrder ==
    /\ \A i, j \in DOMAIN triggers :
          i < j => \/ triggers[i].priority > triggers[j].priority
                   \/ /\ triggers[i].priority = triggers[j].priority
                      /\ triggers[i].reg < triggers[j].reg
    /\ lastCheck.called =>
          \/ /\ \A i \in DOMAIN triggers : triggers[i].reg \notin lastCheck.hit
             /\ lastCheck.result = Null
             /\ lastCheck.evaluated = [i \in DOMAIN triggers |-> triggers[i].reg]
          \/ \E k \in DOMAIN triggers :
                /\ triggers[k].reg \in lastCheck.hit
                /\ \A i \in 1..(k - 1) : triggers[i].reg \notin lastCheck.hit
                /\ lastCheck.result.triggered
                /\ lastCheck.result.reg = triggers[k].reg
                /\ lastCheck.result.triggerId = triggers[k].id
                /\ lastCheck.evaluated = [i \in 1..k |-> triggers[i].reg]

\* three triggers, the last registered between two of equal priority and a
\* lower one; the second and the third match and the second's result is
\* returned without the third being evaluated
C30_Witness ==
    /\ Len(triggers) = 3
    /\ triggers[1].priority = triggers[2].priority
    /\ triggers[2].reg = 3
    /\ triggers[3].reg = 2
    /\ lastCheck.called
    /\ lastCheck.hit = {2, 3}
    /\ lastCheck.result.reg = 3
    /\ Len(lastCheck.evaluated) = 2

\* ------------------------------------------------------------------------
\* C31: a flush attempt (the debounce or startup timer or the max-wait timer
\* firing, or flush(chatId)) on a batch without a trigger emits no payload
\* and changes nothing but the mode, which becomes realtime: the buffer,
\* firstMessageAt and every armed timer other than the one that fired are
\* as before, a pending auto-reply check included.
C31_NoOpWithoutTrigger ==
    [][\A c \in DOMAIN chatStates :
          ((Flush \/ DebounceTimerFires \/ MaxWaitTimerFires) /\ ~chatStates[c].hasTrigger) =>
              /\ lastFlush' = NoFlush
              /\ c \in DOMAIN chatStates'
              /\ chatStates'[c].mode = "realtime"
              /\ chatStates'[c].buffer = chatStates[c].buffer
              /\ chatStates'[c].firstMessageAge = chatStates[c].firstMessageAge
              /\ chatStates'[c].maxWaitTimer = chatStates[c].maxWaitTimer
              /\ chatStates'[c].autoReplyTimer = chatStates[c].autoReplyTimer
              /\ chatStates[c].debounceTimer > 0 =>
                    chatStates'[c].debounceTimer = chatStates[c].debounceTimer]_vars

\* ------------------------------------------------------------------------
\* C32: flush(chatId) acts like a firing debounce or max-wait timer: on a
\* triggered batch it hands over the whole buffer with the trigger message at
\* once and leaves the batch empty with no timer armed, and no later payload
\* repeats a message already handed over; for a chat id without a state it
\* emits nothing and creates no state.
C32_FlushDrains ==
    /\ [](lastFlush.via = "flush" =>
            /\ hasState(lastFlush.chatId)
            /\ ~Pending(chatStates[lastFlush.chatId])
            /\ chatStates[lastFlush.chatId].buffer = <<>>
            /\ ~chatStates[lastFlush.chatId].hasTrigger)
    /\ [][\A c \in DOMAIN chatStates :
            (Flush /\ chatStates[c].hasTrigger) =>
                /\ lastFlush'.via = "flush"
                /\ lastFlush'.messages = chatStates[c].buffer
                /\ lastFlush'.triggerMessage = chatStates[c].triggerMessage]_vars
    /\ [][lastFlush' # NoFlush =>
            lastFlush'.messages[1].messageId > accounted[lastFlush'.chatId]]_vars
    /\ [][(Flush /\ chatStates = <<>>) =>
            /\ chatStates' = <<>>
            /\ detached' = detached
            /\ flushed' = flushed
            /\ lastFlush' = NoFlush]_vars

\* flush(chatId) handed over a trigger and a later message while the debounce
\* and the max-wait timer were armed, after an earlier payload of the chat
C32_Witness ==
    /\ lastFlush.via = "flush"
    /\ Len(lastFlush.messages) = 2
    /\ lastFlush.triggerMessage = lastFlush.messages[1]
    /\ flushed[lastFlush.chatId] = 2
    /\ ~Pending(chatStates[lastFlush.chatId])

\* ------------------------------------------------------------------------
\* C33: the payloads of a conversation partition its messages.  The buffer
\* holds, in arrival order, exactly the messages received since the last
\* payload (or since dispose() dropped the buffer); a payload is the whole
\* buffer and leaves it empty; and a message leaves the buffer only in a
\* payload or by dispose(), so without dispose() every message appears in
\* exactly one payload or is still buffered.
BufferOf(c) == IF hasState(c) THEN chatStates[c].buffer ELSE <<>>

C33_Partition ==
    /\ [](\A c \in conversations :
            conversations = {c} =>
                /\ Len(BufferOf(c)) = nextMsgId - 1 - accounted[c]
                /\ \A i \in DOMAIN BufferOf(c) : BufferOf(c)[i].messageId = accounted[c] + i)
    /\ [][lastFlush' # NoFlush =>
            /\ lastFlush'.messages = BufferOf(lastFlush'.chatId)
            /\ lastFlush'.chatId \in DOMAIN chatStates'
            /\ chatStates'[lastFlush'.chatId].buffer = <<>>]_vars
    /\ [][\A c \in conversations :
            Len(BufferOf(c)') < Len(BufferOf(c)) =>
                \/ lastFlush'.chatId = c /\ lastFlush'.messages = BufferOf(c)
                \/ Dispose]_vars

\* the second payload of a chat holds a message that matched no trigger and
\* the trigger received after it
C33_Witness ==
    /\ Len(lastFlush.messages) = 2
    /\ flushed[lastFlush.chatId] = 2
    /\ lastFlush.messages[1].messageId = 2
    /\ ~lastFlush.messages[1].mentionedBot
    /\ lastFlush.triggerMessage = lastFlush.messages[2]

\* ------------------------------------------------------------------------
\* C34: between two steps of the event loop every triggered batch has its
\* max-wait timer armed, with at most MAX_BATCH_WAIT_MS left, in startup
\* mode and in realtime mode: a triggered batch always has a pending timer
\* whose callback flushes it.
C34_TriggeredHasMaxWait ==
    \A c \in DOMAIN chatStates :
        chatStates[c].hasTrigger =>
            /\ chatStates[c].maxWaitTimer # NoTimer
            /\ chatStates[c].maxWaitTimer <= MAX_BATCH_WAIT_MS - chatStates[c].firstTriggerAge
            /\ chatStates[c].triggerMessage # NoMsg

\* a triggered realtime batch kept busy: its max-wait timer is due while the
\* debounce timer is still running
C34_Witness ==
    \E c \in DOMAIN chatStates :
        /\ chatStates[c].hasTrigger
        /\ chatStates[c].mode = "realtime"
        /\ chatStates[c].maxWaitTimer = 0
        /\ chatStates[c].debounceTimer > 0

\* ------------------------------------------------------------------------
\* C35: for one conversation at most one onFlush call is in flight at any
\* time: no onFlush call for a chat starts while an earlier one for the same
\* chat has not settled.
C35_OneDispatchPerChat ==
    \A c \in Chats : dispatching[c] <= 1

\* ------------------------------------------------------------------------
\* the queue objects of a chat whose worker (processQueue) has not returned
WorkersOf(c) == {q \in DOMAIN queueHeap : queueHeap[q].chatId = c /\ queueHeap[q].processing}

\* C37: the mutual exclusion of a chat survives clearAllQueues: at most one
\* worker of a chat is active at a time, so at most one of its tasks is
\* executing, and a worker that finishes removes from chatQueues only the
\* entry of its own queue object, never the entry of a queue that another
\* worker is draining.
C37_ExclusionSurvivesClear ==
    /\ [](\A c \in Chats : Cardinality(WorkersOf(c)) <= 1)
    /\ [](\A t, u \in RunningTasks : taskChat[t] = taskChat[u] => t = u)
    /\ [][HandlerDone =>
            \A c \in DOMAIN chatQueues :
                c \notin DOMAIN chatQueues' => chatQueues[c] \notin DOMAIN queueHeap']_vars

\* ------------------------------------------------------------------------
\* the tasks whose handler has called dispatchToAgent
HandedToAgent(h) == {t \in DOMAIN h : h[t].at \in {"dispatch", "dispatched"}}

\* the tasks whose handler has called processMessage on its batch processor
HandedToBatch(h) == {t \in DOMAIN h : h[t].at = "batched"}

\* C36: once the abort handler or stopGateway has run (shouldStop is set) no
\* message is handed to the agent: no task calls dispatchToAgent, no task
\* calls processMessage on the disposed batch processor, and no timer of the
\* batch processor calls onFlush.
C36_NothingAfterShutdown ==
    [][shouldStop =>
          /\ HandedToAgent(handling') = HandedToAgent(handling)
          /\ HandedToBatch(handling') = HandedToBatch(handling)
          /\ (DebounceTimerFires \/ MaxWaitTimerFires) => lastFlush' = NoFlush]_vars

\* ------------------------------------------------------------------------
\* C38: no genuine message is filtered out: an event whose id is not in the
\* dedup ledger and whose create_time is no older than MAX_MESSAGE_AGE_MS is
\* enqueued, also when its create_time equals or precedes that of an earlier
\* message of its chat.
C38_GenuineEnqueued ==
    (/\ lastEvent.eventId # ""
     /\ lastEvent.seenAge = NoTime
     /\ lastEvent.ageMs # NoTime
     /\ lastEvent.ageMs <= MAX_MESSAGE_AGE_MS) => lastEvent.verdict = "enqueued"

\* ------------------------------------------------------------------------
\* C39: a conversation in startup mode always has the startup-window timer
\* armed, due at the end of the window; a conversation in realtime mode stays
\* in realtime mode as long as its state exists; and every conversation in
\* startup mode eventually is in realtime mode (or is dropped by dispose),
\* with or without a trigger.
C39_StartupEnds ==
    /\ [](\A c \in DOMAIN chatStates :
            chatStates[c].mode = "startup" =>
                /\ chatStates[c].debounceTimer # NoTimer
                /\ chatStates[c].debounceTimer = STARTUP_WINDOW_MS - sinceConnected)
    /\ [][\A c \in DOMAIN chatStates \cap DOMAIN chatStates' :
            chatStates[c].mode = "realtime" => chatStates'[c].mode = "realtime"]_vars
    /\ \A c \in Chats :
          (hasState(c) /\ chatStates[c].mode = "startup")
              ~> (~hasState(c) \/ chatStates[c].mode = "realtime")

\* at the end of the startup window a conversation that never had a trigger
\* and was never flushed is in realtime mode with its message, received one
\* tick before, still buffered and no timer left
C39_Witness ==
    \E c \in DOMAIN chatStates :
        /\ chatStates[c].mode = "realtime"
        /\ sinceConnected = STARTUP_WINDOW_MS
        /\ ~chatStates[c].hasTrigger
        /\ c \notin everTriggered
        /\ Len(chatStates[c].buffer) = 1
        /\ chatStates[c].lastMessageAge = TickMs
        /\ chatStates[c].firstMessageAge = TickMs
        /\ ~Pending(chatStates[c])
        /\ accounted[c] = 0
        /\ lastFlush = NoFlush

\* ------------------------------------------------------------------------
\* C40: timers never leak: every pending timer is the one its field of a
\* state in chatStates refers to, so a conversation has at most one pending
\* timer of each kind, no timer field is overwritten while its timer is
\* pending (no timer runs on without a handle), and no timer is left on a
\* state object that dispose() or anything else has dropped from chatStates.
C40_NoTimerLeak ==
    /\ detached = {}
    /\ \A c \in DOMAIN chatStates : chatStates[c].stray = {}
    /\ \A s \in LiveStates : s.chatId \in DOMAIN chatStates /\ chatStates[s.chatId] = s

\* a realtime batch whose debounce timer was re-armed by its third message
\* while its max-wait timer runs on: one pending timer of either kind
C40_Witness ==
    \E c \in DOMAIN chatStates :
        /\ chatStates[c].mode = "realtime"
        /\ Len(chatStates[c].buffer) >= 3
        /\ chatStates[c].lastMessageAge = 0
        /\ chatStates[c].debounceTimer = REALTIME_DEBOUNCE_MS
        /\ chatStates[c].maxWaitTimer \notin {NoTimer, MAX_BATCH_WAIT_MS}
        /\ chatStates[c].stray = {}
        /\ detached = {}

====
